---- MODULE Spec2Model ----
(***************************************************************************)
(* Verification model of the coreth execution layer: the fee distribution  *)
(* (plugin/delta fee calculator), the export transaction (export_tx.go)    *)
(* and the block lifecycle (Block.Verify / Accept / Reject).               *)
(***************************************************************************)
EXTENDS Integers, Sequences, FiniteSets, Bags, TLC

(***************************************************************************)
(* Bounds of the model.                                                    *)
(***************************************************************************)
\* fee totals of the enumerated grid are 0..MaxFee
MaxFee == 4
\* validator (orion) counts are 0..MaxOrions
MaxOrions == 2
\* the allocation denominator of the enumerated grid; fractions are 0..GridDenominator
GridDenominator == 3
\* input and output amounts of an export transaction are 0..MaxAmount
MaxAmount == 2
\* account balances are 0..MaxBalance (the native one times x2cRate)
MaxBalance == 2
\* base fees are 0..MaxBaseFee
MaxBaseFee == 2
\* block numbers are 0..MaxBlockNumber
MaxBlockNumber == 1
\* activation times of upgrades are 0..MaxTime
MaxTime == 3

VARIABLES
    feeIn,      \* the arguments of CalculateFees
    feeOut,     \* the FeesDistribution it returned, NoFees before the call
    status,     \* Block.status of every block
    mempool,    \* vm.mempool: the number of entries of every atomic transaction
    verifiedRoots,      \* vm.atomicBackend: the blocks that hold a verified atomic state
    chainLastAccepted,  \* vm.blockChain: the block last accepted into the canonical chain
    dbMem,      \* vm.db (versiondb): the uncommitted value under lastAcceptedKey
    commitBatch,        \* the batch vm.db.CommitBatch() handed to Accept
    diskLastAccepted,   \* the durable value under lastAcceptedKey
    sharedMemory,       \* vm.ctx.SharedMemory: the entries present (durable)
    smApplied,  \* the blocks whose atomic requests were applied to shared memory
    bootstrapped,       \* vm.bootstrapped
    wellFormed, \* the blocks that pass Block.syntacticVerify
    rejectedBefore,     \* the blocks Reject has been called on since the start
    pc,         \* the position of the Accept in flight, "returned" when a call
                \* has just returned, "idle" when the next call may start
    cur,        \* the block of the Accept in flight
    trace,      \* the steps the Accept in flight (or last returned) has performed
    result,     \* what the last call returned, NoResult while none has
    exTx,       \* the signed export transaction: the UnsignedExportTx and its Creds
    exRules,    \* params.Rules and the base fee the transaction is verified under
    exState,    \* state.StateDB: balance, multi-coin balance and nonce per address
    exReturn,   \* what the last call on the export transaction returned
    bfIn,       \* the arguments of CalcBaseFee: the configuration, the parent
                \* header and the child's timestamp
    bfOut,      \* what CalcBaseFee returned, NoBaseFee before the call
    cfgIn,      \* the stored and the new params.ChainConfig and the head's height and time
    cfgOut,     \* the call on the configurations: its position, locals and return
    imTx,       \* the signed import transaction: the UnsignedImportTx and its Creds
    imRules,    \* params.Rules and the base fee the import is verified under
    imVM,       \* what the VM holds when the import is verified: vm.bootstrapped,
                \* the outputs in shared memory, the inputs the ancestors consume
    imReturn,   \* what the last call on the import transaction returned
    gpu,        \* the gasPriceUpdater: its chain configuration, the values its setter
                \* holds, its wait group and whether shutdownChan is closed
    gpuTasks,   \* the goroutines running updatePrice and where each of them is
    clock,      \* time.Now(), in seconds
    svIn,       \* the block handed to SyntacticVerify and the rules of its timestamp
    svOut       \* what SyntacticVerify returned, NoVerdict before the call

feeVars == <<feeIn, feeOut>>
blockVars == <<status, mempool, verifiedRoots, chainLastAccepted, dbMem, commitBatch,
               diskLastAccepted, sharedMemory, smApplied, bootstrapped, wellFormed,
               rejectedBefore, pc, cur, trace, result>>
exportVars == <<exTx, exRules, exState, exReturn>>
baseFeeVars == <<bfIn, bfOut>>
configVars == <<cfgIn, cfgOut>>
importVars == <<imTx, imRules, imVM, imReturn>>
updaterVars == <<gpu, gpuTasks, clock>>
syntacticVars == <<svIn, svOut>>
vars == <<feeIn, feeOut, status, mempool, verifiedRoots, chainLastAccepted, dbMem,
          commitBatch, diskLastAccepted, sharedMemory, smApplied, bootstrapped,
          wellFormed, rejectedBefore, pc, cur, trace, result,
          exTx, exRules, exState, exReturn, bfIn, bfOut, cfgIn, cfgOut,
          imTx, imRules, imVM, imReturn, gpu, gpuTasks, clock, svIn, svOut>>

(***************************************************************************)
(* Fee distribution: fee_calculator.go                                     *)
(***************************************************************************)
NoFees == [BaseFee |-> -1, PriorityFee |-> -1, LpAllocation |-> -1,
           GovernanceAllocation |-> -1, OrionFee |-> -1, called |-> FALSE]

\* params.Rules, the fields the fee calculator reads
FeeRules(lp, gov, prio, orion, maxOrion, denom) ==
    [LpAllocation |-> lp, GovernanceAllocation |-> gov,
     PriorityFeeOrionAllocation |-> prio, OrionAllocation |-> orion,
     MaxOrionAllocation |-> maxOrion, AllocationDenominator |-> denom]

\* the rows of TestFeeCalculator that carry validators: baseFee, priorityFee,
\* nodesAmount and the rules (denominator 100)
FeeTestVectors ==
    { [B |-> 1000000, P |-> 0, n |-> 0, rules |-> FeeRules(0, 0, 0, 0, 0, 100)],
      [B |-> 1000000, P |-> 0, n |-> 0, rules |-> FeeRules(0, 50, 0, 0, 0, 100)],
      [B |-> 1000000, P |-> 0, n |-> 1, rules |-> FeeRules(0, 50, 0, 5, 100, 100)],
      [B |-> 1000000, P |-> 0, n |-> 10, rules |-> FeeRules(0, 50, 0, 5, 100, 100)],
      [B |-> 1000000, P |-> 0, n |-> 20, rules |-> FeeRules(0, 50, 0, 5, 25, 100)],
      [B |-> 1000000, P |-> 1000000, n |-> 2, rules |-> FeeRules(25, 50, 50, 5, 100, 100)],
      [B |-> 1000000, P |-> 1000000, n |-> 5, rules |-> FeeRules(25, 50, 50, 5, 100, 100)],
      [B |-> 1002577, P |-> 1000159, n |-> 5, rules |-> FeeRules(25, 50, 50, 5, 100, 100)] }

\* every combination of small totals, validator counts and fractions
FeeGrid ==
    { [B |-> b, P |-> p, n |-> n, rules |-> FeeRules(lp, gov, prio, orion, mx, GridDenominator)] :
        b \in 0..MaxFee, p \in 0..MaxFee, n \in 0..MaxOrions,
        lp \in 0..GridDenominator, gov \in 0..GridDenominator,
        prio \in 0..GridDenominator, orion \in 0..GridDenominator,
        mx \in 0..GridDenominator }

\* the configuration of TestFeeCalculator with one validator more than the
\* governance fraction covers: 11 validators at 5 of 100 each against 50 of 100
FeeEdgeInputs ==
    { [B |-> 1000000, P |-> 0, n |-> 11, rules |-> FeeRules(0, 50, 0, 5, 100, 100)] }

FeeInputs == FeeGrid \cup FeeTestVectors \cup FeeEdgeInputs

\* calculateToLp with the division rounding up
calculateToLpRoundingUp(totalBaseFee, rules) ==
    (rules.LpAllocation * totalBaseFee + rules.AllocationDenominator - 1)
        \div rules.AllocationDenominator

\* calculateToLp
calculateToLp(totalBaseFee, rules) ==
    (rules.LpAllocation * totalBaseFee) \div rules.AllocationDenominator

\* calculateToGovernanceAndOrion with the per-validator division rounding up
calculateToGovernanceAndOrionRoundingUp(totalBaseFee, orionAmount, rules) ==
    LET governanceAndOrion ==
            (rules.GovernanceAllocation * totalBaseFee) \div rules.AllocationDenominator
        uncapped == rules.OrionAllocation * orionAmount
        capped == IF uncapped > rules.MaxOrionAllocation
                  THEN rules.MaxOrionAllocation ELSE uncapped
        summaryOrionAllocation ==
            (capped * totalBaseFee) \div rules.AllocationDenominator
        orionAllocation == (summaryOrionAllocation + orionAmount - 1) \div orionAmount
        correctSummaryOrionAllocation == orionAllocation * orionAmount
    IN  IF orionAmount = 0
        THEN <<governanceAndOrion, 0>>
        ELSE <<governanceAndOrion - correctSummaryOrionAllocation,
               correctSummaryOrionAllocation>>

\* calculateToGovernanceAndOrion: <<governanceAllocation, correctSummaryOrionAllocation>>
calculateToGovernanceAndOrion(totalBaseFee, orionAmount, rules) ==
    LET governanceAndOrion ==
            (rules.GovernanceAllocation * totalBaseFee) \div rules.AllocationDenominator
        uncapped == rules.OrionAllocation * orionAmount
        capped == IF uncapped > rules.MaxOrionAllocation
                  THEN rules.MaxOrionAllocation ELSE uncapped
        summaryOrionAllocation ==
            (capped * totalBaseFee) \div rules.AllocationDenominator
        orionAllocation == summaryOrionAllocation \div orionAmount
        correctSummaryOrionAllocation == orionAllocation * orionAmount
    IN  IF orionAmount = 0
        THEN <<governanceAndOrion, 0>>
        ELSE <<governanceAndOrion - correctSummaryOrionAllocation,
               correctSummaryOrionAllocation>>

\* calculatePriorityFeeAndOrion handing out the aggregate before it is made a
\* multiple of the validator count
calculatePriorityFeeAndOrionUnrounded(totalPriorityFee, orionAmount, rules) ==
    LET summaryOrionAllocation ==
            (rules.PriorityFeeOrionAllocation * totalPriorityFee)
                \div rules.AllocationDenominator
    IN  IF orionAmount = 0
        THEN <<totalPriorityFee, 0>>
        ELSE <<totalPriorityFee - summaryOrionAllocation, summaryOrionAllocation>>

\* calculatePriorityFeeAndOrion: <<toPriorityFee, correctSummaryOrionAllocation>>
calculatePriorityFeeAndOrion(totalPriorityFee, orionAmount, rules) ==
    LET summaryOrionAllocation ==
            (rules.PriorityFeeOrionAllocation * totalPriorityFee)
                \div rules.AllocationDenominator
        orionAllocation == summaryOrionAllocation \div orionAmount
        correctSummaryOrionAllocation == orionAllocation * orionAmount
    IN  IF orionAmount = 0
        THEN <<totalPriorityFee, 0>>
        ELSE <<totalPriorityFee - correctSummaryOrionAllocation,
               correctSummaryOrionAllocation>>

\* CalculateFees taking the validators' part of the priority fee whatever the
\* validator count
CalculateFeesTakingAtZero(totalBaseFee, totalPriorityFee, orionAmount, rules) ==
    LET lpAllocation == calculateToLp(totalBaseFee, rules)
        govOrion == calculateToGovernanceAndOrion(totalBaseFee, orionAmount, rules)
        prioOrion == calculatePriorityFeeAndOrion(totalPriorityFee, orionAmount, rules)
        taken == (rules.PriorityFeeOrionAllocation * totalPriorityFee)
                     \div rules.AllocationDenominator
        sum == govOrion[2] + prioOrion[2]
    IN  [BaseFee |-> totalBaseFee - lpAllocation - govOrion[1] - govOrion[2],
         PriorityFee |-> IF orionAmount = 0 THEN totalPriorityFee - taken ELSE prioOrion[1],
         LpAllocation |-> lpAllocation,
         GovernanceAllocation |-> govOrion[1],
         OrionFee |-> IF sum > 0 THEN sum \div orionAmount ELSE sum,
         called |-> TRUE]

\* CalculateFees with the subtraction of the validator aggregate left out
CalculateFeesKeepsOrion(totalBaseFee, totalPriorityFee, orionAmount, rules) ==
    LET lpAllocation == calculateToLp(totalBaseFee, rules)
        govOrion == calculateToGovernanceAndOrion(totalBaseFee, orionAmount, rules)
        prioOrion == calculatePriorityFeeAndOrion(totalPriorityFee, orionAmount, rules)
        sum == govOrion[2] + prioOrion[2]
    IN  [BaseFee |-> totalBaseFee - lpAllocation - govOrion[1],
         PriorityFee |-> prioOrion[1],
         LpAllocation |-> lpAllocation,
         GovernanceAllocation |-> govOrion[1],
         OrionFee |-> IF sum > 0 THEN sum \div orionAmount ELSE sum,
         called |-> TRUE]

\* CalculateFees
CalculateFees(totalBaseFee, totalPriorityFee, orionAmount, rules) ==
    LET lpAllocation == calculateToLp(totalBaseFee, rules)
        govOrion == calculateToGovernanceAndOrion(totalBaseFee, orionAmount, rules)
        prioOrion == calculatePriorityFeeAndOrion(totalPriorityFee, orionAmount, rules)
        sum == govOrion[2] + prioOrion[2]
    IN  [BaseFee |-> totalBaseFee - lpAllocation - govOrion[1] - govOrion[2],
         PriorityFee |-> prioOrion[1],
         LpAllocation |-> lpAllocation,
         GovernanceAllocation |-> govOrion[1],
         OrionFee |-> IF sum > 0 THEN sum \div orionAmount ELSE sum,
         called |-> TRUE]

\* calculateToGovernanceAndOrion of the second copy of the fee calculator: the
\* capped pool times the total is divided by the validator count and multiplied
\* back first, and by the denominator last
calculateToGovernanceAndOrionLateDivision(totalBaseFee, orionAmount, rules) ==
    LET governanceAndOrion ==
            (rules.GovernanceAllocation * totalBaseFee) \div rules.AllocationDenominator
        uncapped == rules.OrionAllocation * orionAmount
        capped == IF uncapped > rules.MaxOrionAllocation
                  THEN rules.MaxOrionAllocation ELSE uncapped
        summaryOrionAllocation == capped * totalBaseFee
        orionAllocation == summaryOrionAllocation \div orionAmount
        correctSummaryOrionAllocation ==
            (orionAllocation * orionAmount) \div rules.AllocationDenominator
    IN  IF orionAmount = 0
        THEN <<governanceAndOrion, 0>>
        ELSE <<governanceAndOrion - correctSummaryOrionAllocation,
               correctSummaryOrionAllocation>>

\* CalculateFees of the second copy of the fee calculator
CalculateFeesLateDivision(totalBaseFee, totalPriorityFee, orionAmount, rules) ==
    LET lpAllocation == calculateToLp(totalBaseFee, rules)
        govOrion == calculateToGovernanceAndOrionLateDivision(totalBaseFee, orionAmount, rules)
        prioOrion == calculatePriorityFeeAndOrion(totalPriorityFee, orionAmount, rules)
        sum == govOrion[2] + prioOrion[2]
    IN  [BaseFee |-> totalBaseFee - lpAllocation - govOrion[1] - govOrion[2],
         PriorityFee |-> prioOrion[1],
         LpAllocation |-> lpAllocation,
         GovernanceAllocation |-> govOrion[1],
         OrionFee |-> IF sum > 0 THEN sum \div orionAmount ELSE sum,
         called |-> TRUE]

(***************************************************************************)
(* Block lifecycle: Block.Verify, Accept, Reject, SetStatus (block.go)     *)
(***************************************************************************)
\* the blocks of the model and the atomic transactions each one embeds
\* (Block.atomicTxs): B1 and B2 are siblings that embed the same import
Blocks == {"B1", "B2"}
Txs == {"ta", "tb"}
atomicTxs(b) == IF b = "B1" THEN <<"ta">> ELSE <<"ta", "tb">>
TxSet(b) == {atomicTxs(b)[i] : i \in 1..Len(atomicTxs(b))}

\* UnsignedAtomicTx.AtomicOps: the shared-memory requests of a transaction;
\* ta imports (removes) entry u1, tb exports (puts) entry u2
AtomicOps(tx) ==
    IF tx = "ta" THEN [RemoveRequests |-> {"u1"}, PutRequests |-> {}]
                 ELSE [RemoveRequests |-> {}, PutRequests |-> {"u2"}]

\* choices.Status
Status == {"Unknown", "Processing", "Rejected", "Accepted"}
None == "none"
NoResult == [op |-> "none", blk |-> None, err |-> "nil", held |-> FALSE,
             rejected |-> FALSE, failed |-> {}, sm |-> {}]

\* bonusBlockMainnetHeights: the map is empty
BonusBlocks == {}
\* atomicBackend.IsBonus
IsBonus(b) == b \in BonusBlocks

\* what the VM keeps in memory only, what is durable, what is fixed for a run
vmMemory == <<status, mempool, verifiedRoots, chainLastAccepted, dbMem, commitBatch>>
vmDurable == <<diskLastAccepted, sharedMemory, smApplied>>
vmFixed == <<bootstrapped, wellFormed>>
\* the variables of the other parts of the model
nonBlockVars == <<feeIn, feeOut, exTx, exRules, exState, exReturn, bfIn, bfOut, cfgIn, cfgOut, imTx, imRules, imVM, imReturn,
                  gpu, gpuTasks, clock, svIn, svOut>>

\* the state of the block lifecycle while another specification runs
IdleBlocks ==
    /\ status = [b \in Blocks |-> "Unknown"]
    /\ mempool = [t \in Txs |-> 0]
    /\ verifiedRoots = {}
    /\ chainLastAccepted = None
    /\ dbMem = None
    /\ commitBatch = None
    /\ diskLastAccepted = None
    /\ sharedMemory = {}
    /\ smApplied = {}
    /\ bootstrapped = FALSE
    /\ wellFormed = {}
    /\ rejectedBefore = {}
    /\ pc = "idle"
    /\ cur = None
    /\ trace = <<>>
    /\ result = NoResult

\* the VM after construction: blocks parsed by newBlock carry the zero status,
\* some atomic transactions are pending, entry u1 is in shared memory
InitBlocks ==
    /\ status = [b \in Blocks |-> "Unknown"]
    /\ mempool \in [Txs -> {0, 1}]
    /\ verifiedRoots = {}
    /\ chainLastAccepted = None
    /\ dbMem = None
    /\ commitBatch = None
    /\ diskLastAccepted = None
    /\ sharedMemory = {"u1"}
    /\ smApplied = {}
    /\ bootstrapped \in BOOLEAN
    /\ wellFormed \in {Blocks, {"B1"}}
    /\ rejectedBefore = {}
    /\ pc = "idle"
    /\ cur = None
    /\ trace = <<>>
    /\ result = NoResult

\* mempool.RemoveTx: the transaction leaves the pool
RemoveTx(mp, tx) == [mp EXCEPT ![tx] = 0]
\* vm.issueTx when it succeeds: the pool gains one entry for the transaction
issueTx(mp, tx) == [mp EXCEPT ![tx] = @ + 1]

\* Block.SetStatus
SetStatus(b, s) ==
    /\ pc = "idle"
    /\ status' = [status EXCEPT ![b] = s]
    /\ UNCHANGED <<mempool, verifiedRoots, chainLastAccepted, dbMem, commitBatch>>
    /\ UNCHANGED <<vmDurable, vmFixed, nonBlockVars, rejectedBefore, pc, cur, trace, result>>

\* Block.syntacticVerify
syntacticVerify(b) == b \in wellFormed

\* verifyUTXOsPresent finding every entry present
verifyUTXOsPresentUnchecked(b) == TRUE

\* Block.verifyUTXOsPresent: nil when the block is a bonus block, the VM is not
\* bootstrapped, or SharedMemory.Get finds every RemoveRequest of every transaction
verifyUTXOsPresent(b) ==
    \/ IsBonus(b)
    \/ ~bootstrapped
    \/ \A i \in 1..Len(atomicTxs(b)) :
          AtomicOps(atomicTxs(b)[i]).RemoveRequests \subseteq sharedMemory

\* the outcomes of blockChain.InsertBlockManual: it succeeds, or fails before or
\* after the atomic backend has recorded the block's atomic state
InsertOutcomes == {"nil", "failedBeforeState", "failedAfterState"}

\* Block.verify(writes) without the cleanup of lines 180-187
verifyWithNoCleanup(b, writes, ins) ==
    LET inserted == IF ins = "failedBeforeState"
                    THEN verifiedRoots ELSE verifiedRoots \cup {b}
        err == IF ~syntacticVerify(b) THEN "syntactic"
               ELSE IF ~verifyUTXOsPresent(b) THEN "errMissingUTXOs"
               ELSE ins
    IN  /\ verifiedRoots' =
              IF err \in {"syntactic", "errMissingUTXOs"} THEN verifiedRoots
              ELSE inserted
        /\ result' = [NoResult EXCEPT !.op = "Verify", !.blk = b, !.err = err,
                                       !.held = (b \in verifiedRoots)]

\* Block.verify(writes), ins being the outcome of InsertBlockManual
verifyWith(b, writes, ins) ==
    LET inserted == IF ins = "failedBeforeState"
                    THEN verifiedRoots ELSE verifiedRoots \cup {b}
        err == IF ~syntacticVerify(b) THEN "syntactic"
               ELSE IF ~verifyUTXOsPresent(b) THEN "errMissingUTXOs"
               ELSE ins
    IN  /\ verifiedRoots' =
              IF err \in {"syntactic", "errMissingUTXOs"} THEN verifiedRoots
              ELSE IF ins # "nil" \/ ~writes THEN inserted \ {b}
              ELSE inserted
        /\ result' = [NoResult EXCEPT !.op = "Verify", !.blk = b, !.err = err,
                                       !.held = (b \in verifiedRoots)]

\* a call of Block.verify
verify(b, writes) ==
    /\ pc = "idle"
    /\ \E ins \in InsertOutcomes : verifyWith(b, writes, ins)
    /\ pc' = "returned"
    /\ UNCHANGED <<status, mempool, chainLastAccepted, dbMem, commitBatch>>
    /\ UNCHANGED <<vmDurable, vmFixed, nonBlockVars, rejectedBefore, cur, trace>>

\* the loop of Block.Reject with the call of RemoveTx left out
RECURSIVE reissueAllNoRemove(_, _, _)
reissueAllNoRemove(mp, txs, failing) ==
    IF txs = <<>> THEN mp
    ELSE LET issued == IF Head(txs) \in failing THEN mp ELSE issueTx(mp, Head(txs))
         IN  reissueAllNoRemove(issued, Tail(txs), failing)

\* the loop of Block.Reject with the call of issueTx left out
RECURSIVE reissueAllNoIssue(_, _, _)
reissueAllNoIssue(mp, txs, failing) ==
    IF txs = <<>> THEN mp
    ELSE reissueAllNoIssue(RemoveTx(mp, Head(txs)), Tail(txs), failing)

\* the loop of Block.Reject over b.atomicTxs: every transaction is removed from
\* the mempool and re-issued; the re-issue of the transactions in failing returns
\* an error, which is logged and ignored
RECURSIVE reissueAll(_, _, _)
reissueAll(mp, txs, failing) ==
    IF txs = <<>> THEN mp
    ELSE LET removed == RemoveTx(mp, Head(txs))
             issued == IF Head(txs) \in failing THEN removed
                       ELSE issueTx(removed, Head(txs))
         IN  reissueAll(issued, Tail(txs), failing)

\* the errors Block.Reject returns after the loop: none, or that of
\* GetVerifiedAtomicState, atomicState.Reject or blockChain.Reject
RejectErrors(b) ==
    IF b \in verifiedRoots THEN {"nil", "atomicStateReject", "chainReject"}
    ELSE {"noVerifiedState"}

\* Block.Reject
Reject(b) ==
    /\ pc = "idle"
    /\ status' = [status EXCEPT ![b] = "Rejected"]
    /\ \E failing \in SUBSET TxSet(b), err \in RejectErrors(b) :
          /\ mempool' = reissueAll(mempool, atomicTxs(b), failing)
          /\ result' = [NoResult EXCEPT !.op = "Reject", !.blk = b, !.err = err,
                                        !.held = (b \in verifiedRoots),
                                        !.rejected = (b \in rejectedBefore),
                                        !.failed = failing,
                                        !.sm = sharedMemory]
    \* atomicState.Reject drops the block's verified atomic state
    /\ verifiedRoots' = verifiedRoots \ {b}
    /\ rejectedBefore' = rejectedBefore \cup {b}
    /\ pc' = "returned"
    /\ UNCHANGED <<chainLastAccepted, dbMem, commitBatch>>
    /\ UNCHANGED <<vmDurable, vmFixed, nonBlockVars, cur, trace>>

\* the return of Accept: the deferred vm.db.Abort() drops the uncommitted writes
AcceptReturn(err) ==
    /\ dbMem' = None
    /\ commitBatch' = None
    /\ pc' = "returned"
    /\ result' = [NoResult EXCEPT !.op = "Accept", !.blk = cur, !.err = err]

\* Block.Accept, line 79: b.status = choices.Accepted
AcceptSetStatus(b) ==
    /\ pc = "idle"
    /\ status' = [status EXCEPT ![b] = "Accepted"]
    /\ pc' = "blockChainAccept"
    /\ cur' = b
    /\ trace' = <<"status">>
    /\ UNCHANGED <<mempool, verifiedRoots, chainLastAccepted, dbMem, commitBatch>>
    /\ UNCHANGED <<vmDurable, vmFixed, nonBlockVars, rejectedBefore, result>>

\* Block.Accept, lines 81-83: vm.blockChain.Accept(b.ethBlock)
AcceptBlockChain ==
    /\ pc = "blockChainAccept"
    /\ \/ /\ chainLastAccepted' = cur
          /\ pc' = "putLastAccepted"
          /\ trace' = Append(trace, "blockChainAccept")
          /\ UNCHANGED <<dbMem, commitBatch, result>>
       \/ /\ AcceptReturn("blockChainAccept")
          /\ UNCHANGED <<chainLastAccepted, trace>>
    /\ UNCHANGED <<status, mempool, verifiedRoots>>
    /\ UNCHANGED <<vmDurable, vmFixed, nonBlockVars, rejectedBefore, cur>>

\* Put with the write going to the database itself, not to the versiondb's
\* memory layer
AcceptPutLastAcceptedDurably ==
    /\ pc = "putLastAccepted"
    /\ \/ /\ dbMem' = cur
          /\ diskLastAccepted' = cur
          /\ pc' = "removeTxs"
          /\ trace' = Append(trace, "putLastAccepted")
          /\ UNCHANGED <<commitBatch, result>>
       \/ /\ AcceptReturn("putLastAccepted")
          /\ UNCHANGED <<trace, diskLastAccepted>>
    /\ UNCHANGED <<status, mempool, verifiedRoots, chainLastAccepted>>
    /\ UNCHANGED <<sharedMemory, smApplied, vmFixed, nonBlockVars, rejectedBefore, cur>>

\* Block.Accept, lines 84-86: vm.acceptedBlockDB.Put(lastAcceptedKey, b.id[:]),
\* a write into the versiondb's memory layer
AcceptPutLastAccepted ==
    /\ pc = "putLastAccepted"
    /\ \/ /\ dbMem' = cur
          /\ pc' = "removeTxs"
          /\ trace' = Append(trace, "putLastAccepted")
          /\ UNCHANGED <<commitBatch, result>>
       \/ /\ AcceptReturn("putLastAccepted")
          /\ UNCHANGED trace
    /\ UNCHANGED <<status, mempool, verifiedRoots, chainLastAccepted>>
    /\ UNCHANGED <<vmDurable, vmFixed, nonBlockVars, rejectedBefore, cur>>

\* the loop of Block.Accept over b.atomicTxs
RECURSIVE removeAll(_, _)
removeAll(mp, txs) ==
    IF txs = <<>> THEN mp ELSE removeAll(RemoveTx(mp, Head(txs)), Tail(txs))

\* the loop of Block.Accept stopping after the first transaction
AcceptRemoveFirstTxOnly ==
    /\ pc = "removeTxs"
    /\ mempool' = RemoveTx(mempool, Head(atomicTxs(cur)))
    /\ pc' = "getVerifiedAtomicState"
    /\ trace' = Append(trace, "removeTxs")
    /\ UNCHANGED <<status, verifiedRoots, chainLastAccepted, dbMem, commitBatch>>
    /\ UNCHANGED <<vmDurable, vmFixed, nonBlockVars, rejectedBefore, cur, result>>

\* Block.Accept, lines 88-91: vm.mempool.RemoveTx(tx) for every atomic transaction
AcceptRemoveTxs ==
    /\ pc = "removeTxs"
    /\ mempool' = removeAll(mempool, atomicTxs(cur))
    /\ pc' = "getVerifiedAtomicState"
    /\ trace' = Append(trace, "removeTxs")
    /\ UNCHANGED <<status, verifiedRoots, chainLastAccepted, dbMem, commitBatch>>
    /\ UNCHANGED <<vmDurable, vmFixed, nonBlockVars, rejectedBefore, cur, result>>

\* Block.Accept, lines 95-99: atomicBackend.GetVerifiedAtomicState(b.ID())
AcceptGetVerifiedAtomicState ==
    /\ pc = "getVerifiedAtomicState"
    /\ \/ /\ cur \in verifiedRoots
          /\ pc' = "commitBatch"
          /\ trace' = Append(trace, "getVerifiedAtomicState")
          /\ UNCHANGED <<dbMem, commitBatch, result>>
       \/ /\ cur \notin verifiedRoots
          /\ AcceptReturn("noVerifiedState")
          /\ UNCHANGED trace
    /\ UNCHANGED <<status, mempool, verifiedRoots, chainLastAccepted>>
    /\ UNCHANGED <<vmDurable, vmFixed, nonBlockVars, rejectedBefore, cur>>

\* Block.Accept, lines 100-103: vm.db.CommitBatch(): a batch of the uncommitted writes
AcceptCommitBatch ==
    /\ pc = "commitBatch"
    /\ \/ /\ commitBatch' = dbMem
          /\ pc' = "atomicStateAccept"
          /\ trace' = Append(trace, "commitBatch")
          /\ UNCHANGED <<dbMem, result>>
       \/ /\ AcceptReturn("commitBatch")
          /\ UNCHANGED trace
    /\ UNCHANGED <<status, mempool, verifiedRoots, chainLastAccepted>>
    /\ UNCHANGED <<vmDurable, vmFixed, nonBlockVars, rejectedBefore, cur>>

\* SharedMemory.Apply(requests, batch): the requests of the block's transactions
\* and the writes of the batch become durable in one atomic write
RECURSIVE applyRequests(_, _)
applyRequests(sm, txs) ==
    IF txs = <<>> THEN sm
    ELSE applyRequests((sm \ AtomicOps(Head(txs)).RemoveRequests)
                           \cup AtomicOps(Head(txs)).PutRequests, Tail(txs))

\* atomicState.Accept(commitBatch) when it succeeds
atomicStateAccept(b, batch) ==
    /\ sharedMemory' = applyRequests(sharedMemory, atomicTxs(b))
    /\ smApplied' = smApplied \cup {b}
    /\ diskLastAccepted' = IF batch = None THEN diskLastAccepted ELSE batch
    /\ verifiedRoots' = verifiedRoots \ {b}

\* Block.Accept, line 104: return atomicState.Accept(commitBatch), then the
\* deferred vm.db.Abort()
AcceptAtomicState ==
    /\ pc = "atomicStateAccept"
    /\ \/ /\ atomicStateAccept(cur, commitBatch)
          /\ trace' = Append(trace, "atomicStateAccept")
          /\ AcceptReturn("nil")
       \/ /\ AcceptReturn("atomicStateAccept")
          /\ UNCHANGED <<vmDurable, verifiedRoots, trace>>
    /\ UNCHANGED <<status, mempool, chainLastAccepted>>
    /\ UNCHANGED <<vmFixed, nonBlockVars, rejectedBefore, cur>>

\* the process stops at any point and is started again: what was only in memory
\* is lost, the chain resumes from the durable last-accepted marker
Crash ==
    /\ status' = [b \in Blocks |-> "Unknown"]
    /\ mempool' = [t \in Txs |-> 0]
    /\ verifiedRoots' = {}
    /\ chainLastAccepted' = diskLastAccepted
    /\ dbMem' = None
    /\ commitBatch' = None
    /\ rejectedBefore' = {}
    /\ pc' = "idle"
    /\ cur' = None
    /\ trace' = <<>>
    /\ result' = NoResult
    /\ UNCHANGED <<vmDurable, vmFixed, nonBlockVars>>

\* the caller has taken what the last call returned and may call again
TakeResult ==
    /\ pc = "returned"
    /\ pc' = "idle"
    /\ cur' = None
    /\ trace' = <<>>
    /\ result' = NoResult
    /\ UNCHANGED <<vmMemory, vmDurable, vmFixed, nonBlockVars, rejectedBefore>>

NextBlocks ==
    \/ \E b \in Blocks, s \in Status : SetStatus(b, s)
    \/ \E b \in Blocks, writes \in BOOLEAN : verify(b, writes)
    \/ \E b \in Blocks : Reject(b)
    \/ \E b \in Blocks : AcceptSetStatus(b)
    \/ AcceptBlockChain
    \/ AcceptPutLastAccepted
    \/ AcceptRemoveTxs
    \/ AcceptGetVerifiedAtomicState
    \/ AcceptCommitBatch
    \/ AcceptAtomicState
    \/ TakeResult
    \/ Crash

(***************************************************************************)
(* Export transaction: UnsignedExportTx (export_tx.go)                     *)
(***************************************************************************)
Addresses == {"a1", "a2"}
DIONEAssetID == "DIONE"
Assets == {DIONEAssetID, "custom"}
Nonces == {0, 1}

\* the byte order of addresses and of asset ids, as the sort checks compare them
AddrRank(a) == IF a = "a1" THEN 1 ELSE 2
AssetRank(a) == IF a = DIONEAssetID THEN 1 ELSE 2

\* the conversion rate between the native asset's denomination on the shared
\* ledger and the account model's base unit; 10^9 in the VM, 10^4 here
x2cRate == 10000

\* the sequences over S of at most two elements
SeqsUpTo2(S) == {<<>>} \cup {<<x>> : x \in S} \cup {<<x, y>> : x \in S, y \in S}

DELTAInput(addr, amt, asset, nonce) ==
    [Address |-> addr, Amount |-> amt, AssetID |-> asset, Nonce |-> nonce]

NoReturn == [op |-> "none", err |-> "nil", pre |-> <<>>]

IdleExport ==
    /\ exTx = [NetworkID |-> "thisNetwork", BlockchainID |-> "thisChain",
               DestinationChain |-> "AChain", Ins |-> <<>>,
               ExportedOutputs |-> <<>>, Creds |-> <<>>]
    /\ exRules = [IsApricotPhase1 |-> FALSE, IsApricotPhase3 |-> FALSE,
                  IsApricotPhase5 |-> FALSE, IsBanff |-> FALSE, baseFee |-> 0]
    /\ exState = [balance |-> [a \in Addresses |-> 0],
                  balanceMC |-> [a \in Addresses |-> 0],
                  nonce |-> [a \in Addresses |-> 0]]
    /\ exReturn = NoReturn

\* addrs[from.Address] = from.Nonce on the map of the addresses seen so far
SetAddr(addrs, addr, nonce) ==
    [a \in DOMAIN addrs \cup {addr} |-> IF a = addr THEN nonce ELSE addrs[a]]

\* the loop over utx.Ins of DELTAStateTransfer: the balance check and the debit,
\* then the nonce check; an error returns at once and leaves the debits made
RECURSIVE transferIns(_, _, _)
transferIns(ins, st, addrs) ==
    IF ins = <<>> THEN [err |-> "nil", state |-> st, addrs |-> addrs]
    ELSE
    LET from == Head(ins)
        native == from.AssetID = DIONEAssetID
        amount == IF native THEN from.Amount * x2cRate ELSE from.Amount
        bal == IF native THEN st.balance[from.Address] ELSE st.balanceMC[from.Address]
        debited == IF native
                   THEN [st EXCEPT !.balance[from.Address] = @ - amount]
                   ELSE [st EXCEPT !.balanceMC[from.Address] = @ - amount]
    IN  IF bal < amount
        THEN [err |-> "errInsufficientFunds", state |-> st, addrs |-> addrs]
        ELSE IF debited.nonce[from.Address] # from.Nonce
        THEN [err |-> "errInvalidNonce", state |-> debited, addrs |-> addrs]
        ELSE transferIns(Tail(ins), debited, SetAddr(addrs, from.Address, from.Nonce))

\* DELTAStateTransfer with the nonce advanced once per input instead of once
\* per address
DELTAStateTransferCountingInputs(utx, st) ==
    LET r == transferIns(utx.Ins, st, <<>>)
        count(a) == Cardinality({i \in DOMAIN utx.Ins : utx.Ins[i].Address = a})
    IN  IF r.err # "nil" THEN [err |-> r.err, state |-> r.state]
        ELSE [err |-> "nil",
              state |-> [r.state EXCEPT !.nonce =
                            [a \in Addresses |-> r.state.nonce[a] + count(a)]]]

\* DELTAStateTransfer with no nonce advanced
DELTAStateTransferKeepingNonces(utx, st) ==
    LET r == transferIns(utx.Ins, st, <<>>)
    IN  [err |-> r.err, state |-> r.state]

\* UnsignedExportTx.DELTAStateTransfer: the error returned and the state left
DELTAStateTransfer(utx, st) ==
    LET r == transferIns(utx.Ins, st, <<>>)
    IN  IF r.err # "nil" THEN [err |-> r.err, state |-> r.state]
        ELSE [err |-> "nil",
              state |-> [r.state EXCEPT !.nonce =
                            [a \in Addresses |->
                                IF a \in DOMAIN r.addrs THEN r.addrs[a] + 1
                                ELSE r.state.nonce[a]]]]

\* one call of DELTAStateTransfer on the chosen transaction and state
CallDELTAStateTransfer ==
    /\ exReturn.op = "none"
    /\ LET r == DELTAStateTransfer(exTx, exState)
       IN  /\ exState' = r.state
           /\ exReturn' = [op |-> "DELTAStateTransfer", err |-> r.err, pre |-> exState]
    /\ UNCHANGED <<exTx, exRules, feeVars, blockVars, baseFeeVars, configVars, importVars, updaterVars, syntacticVars>>

\* the state a successful transfer left with every account funded anew
Refunded(st) ==
    [st EXCEPT !.balance = [a \in Addresses |-> MaxBalance * x2cRate],
               !.balanceMC = [a \in Addresses |-> MaxBalance]]

\* a second call of DELTAStateTransfer with the same transaction, on the state
\* the successful first call left or on that state funded anew
CallDELTAStateTransferAgain ==
    /\ exReturn.op = "DELTAStateTransfer"
    /\ exReturn.err = "nil"
    /\ \E st \in {exState, Refunded(exState)} :
           LET r == DELTAStateTransfer(exTx, st)
           IN  /\ exState' = r.state
               /\ exReturn' = [op |-> "DELTAStateTransferAgain", err |-> r.err, pre |-> st]
    /\ UNCHANGED <<exTx, exRules, feeVars, blockVars, baseFeeVars, configVars, importVars, updaterVars, syntacticVars>>

\* params.OdysseyAtomicTxFee, 50 * units.Dione, counted in units.Dione: the
\* amounts of the transactions verified under the flat fee are in units.Dione
OdysseyAtomicTxFee == 50
\* params.AtomicTxBaseCost
AtomicTxBaseCost == 10000
\* secp256k1fx.CostPerSignature and the gas per byte of calcBytesCost
CostPerSignature == 1000
TxBytesGas == 1
\* the codec's sizes: the fixed fields of an UnsignedExportTx, one DELTAInput,
\* one TransferableOutput with a single owner address
TxHeaderBytes == 82
InputBytes == 68
OutputBytes == 80

\* the rules of the upgrade levels; the fork order makes every earlier phase
\* active when a later one is
RulesAt(level, baseFee) ==
    [IsApricotPhase1 |-> level >= 1, IsApricotPhase3 |-> level >= 2,
     IsApricotPhase5 |-> level >= 3, IsBanff |-> level >= 4, baseFee |-> baseFee]
ForkLevels == 0..4

\* verify.SameSubnet: the peer chain is another chain of this chain's subnet
SameSubnet(chain) == chain \in {"AChain", "OmegaChain"}

\* DELTAInput.Verify and TransferableOutput.Verify: an entry carries a value
InputVerify(in) == IF in.Amount = 0 THEN "errNoValueInput" ELSE "nil"
OutputVerify(out) == IF out.Amount = 0 THEN "errNoValueOutput" ELSE "nil"

\* dione.IsSortedTransferableOutputs: by asset id, then by the encoded output
IsSortedTransferableOutputs(outs) ==
    \A i \in 1..(Len(outs) - 1) :
        \/ AssetRank(outs[i].AssetID) < AssetRank(outs[i + 1].AssetID)
        \/ /\ outs[i].AssetID = outs[i + 1].AssetID
           /\ outs[i].Amount <= outs[i + 1].Amount

\* utils.IsSortedAndUnique on DELTAInput: strictly by address, then asset id
IsSortedAndUnique(ins) ==
    \A i \in 1..(Len(ins) - 1) :
        \/ AddrRank(ins[i].Address) < AddrRank(ins[i + 1].Address)
        \/ /\ ins[i].Address = ins[i + 1].Address
           /\ AssetRank(ins[i].AssetID) < AssetRank(ins[i + 1].AssetID)

\* the first error of the loop over utx.Ins of Verify
RECURSIVE verifyIns(_, _)
verifyIns(ins, rules) ==
    IF ins = <<>> THEN "nil"
    ELSE IF InputVerify(Head(ins)) # "nil" THEN InputVerify(Head(ins))
    ELSE IF rules.IsBanff /\ Head(ins).AssetID # DIONEAssetID
    THEN "errExportNonDIONEInputBanff"
    ELSE verifyIns(Tail(ins), rules)

\* the first error of the loop over utx.ExportedOutputs of Verify
RECURSIVE verifyOuts(_, _, _)
verifyOuts(outs, dest, rules) ==
    IF outs = <<>> THEN "nil"
    ELSE IF OutputVerify(Head(outs)) # "nil" THEN OutputVerify(Head(outs))
    ELSE IF Head(outs).AssetID # DIONEAssetID /\ dest = "OmegaChain"
    THEN "errWrongChainID"
    ELSE IF rules.IsBanff /\ Head(outs).AssetID # DIONEAssetID
    THEN "errExportNonDIONEOutputBanff"
    ELSE verifyOuts(Tail(outs), dest, rules)

\* Verify asking for sorted and unique inputs under every rule set
VerifySortedInputsAlways(utx, rules) ==
    IF Len(utx.ExportedOutputs) = 0 THEN "errNoExportOutputs"
    ELSE IF utx.NetworkID # "thisNetwork" THEN "errWrongNetworkID"
    ELSE IF utx.BlockchainID # "thisChain" THEN "errWrongBlockchainID"
    ELSE IF rules.IsApricotPhase5 /\ ~SameSubnet(utx.DestinationChain)
    THEN "errWrongChainID"
    ELSE IF ~rules.IsApricotPhase5 /\ utx.DestinationChain # "AChain"
    THEN "errWrongChainID"
    ELSE IF verifyIns(utx.Ins, rules) # "nil" THEN verifyIns(utx.Ins, rules)
    ELSE IF verifyOuts(utx.ExportedOutputs, utx.DestinationChain, rules) # "nil"
    THEN verifyOuts(utx.ExportedOutputs, utx.DestinationChain, rules)
    ELSE IF ~IsSortedTransferableOutputs(utx.ExportedOutputs) THEN "errOutputsNotSorted"
    ELSE IF ~IsSortedAndUnique(utx.Ins) THEN "errInputsNotSortedUnique"
    ELSE "nil"

\* UnsignedExportTx.Verify: the transaction is well-formed
Verify(utx, rules) ==
    IF Len(utx.ExportedOutputs) = 0 THEN "errNoExportOutputs"
    ELSE IF utx.NetworkID # "thisNetwork" THEN "errWrongNetworkID"
    ELSE IF utx.BlockchainID # "thisChain" THEN "errWrongBlockchainID"
    ELSE IF rules.IsApricotPhase5 /\ ~SameSubnet(utx.DestinationChain)
    THEN "errWrongChainID"
    ELSE IF ~rules.IsApricotPhase5 /\ utx.DestinationChain # "AChain"
    THEN "errWrongChainID"
    ELSE IF verifyIns(utx.Ins, rules) # "nil" THEN verifyIns(utx.Ins, rules)
    ELSE IF verifyOuts(utx.ExportedOutputs, utx.DestinationChain, rules) # "nil"
    THEN verifyOuts(utx.ExportedOutputs, utx.DestinationChain, rules)
    ELSE IF ~IsSortedTransferableOutputs(utx.ExportedOutputs) THEN "errOutputsNotSorted"
    ELSE IF rules.IsApricotPhase1 /\ ~IsSortedAndUnique(utx.Ins)
    THEN "errInputsNotSortedUnique"
    ELSE "nil"

\* UnsignedExportTx.GasUsed: the bytes, the signatures and, with fixedFee, the
\* base cost of an atomic transaction
GasUsed(utx, fixedFee) ==
    LET bytes == TxHeaderBytes + InputBytes * Len(utx.Ins)
                     + OutputBytes * Len(utx.ExportedOutputs)
        cost == bytes * TxBytesGas + Len(utx.Ins) * CostPerSignature
    IN  IF fixedFee THEN cost + AtomicTxBaseCost ELSE cost

\* CalculateDynamicFee: cost * baseFee / x2cRate, rounded up
CalculateDynamicFee(cost, baseFee) == (cost * baseFee + x2cRate - 1) \div x2cRate

\* the fee SemanticVerify produces on the native asset
TxFee(utx, rules) ==
    IF rules.IsApricotPhase3
    THEN CalculateDynamicFee(GasUsed(utx, rules.IsApricotPhase5), rules.baseFee)
    ELSE OdysseyAtomicTxFee

\* dione.FlowChecker: Produce and Consume add to the asset's entry
FlowAdd(flow, asset, amount) == [flow EXCEPT ![asset] = @ + amount]
EmptyFlow == [a \in Assets |-> 0]

RECURSIVE produceOuts(_, _)
produceOuts(outs, produced) ==
    IF outs = <<>> THEN produced
    ELSE produceOuts(Tail(outs), FlowAdd(produced, Head(outs).AssetID, Head(outs).Amount))

RECURSIVE consumeIns(_, _)
consumeIns(ins, consumed) ==
    IF ins = <<>> THEN consumed
    ELSE consumeIns(Tail(ins), FlowAdd(consumed, Head(ins).AssetID, Head(ins).Amount))

\* FlowChecker.Verify: no asset is produced beyond what is consumed
FlowVerify(produced, consumed) ==
    IF \E a \in Assets : produced[a] > consumed[a] THEN "errInsufficientFunds" ELSE "nil"

\* the loop over the credentials of SemanticVerify
RECURSIVE verifyCreds(_, _)
verifyCreds(ins, creds) ==
    IF ins = <<>> THEN "nil"
    ELSE IF Head(creds).type # "secp256k1fx" THEN "errWrongCredentialType"
    ELSE IF Len(Head(creds).Sigs) # 1 THEN "errWrongNumberOfSignatures"
    ELSE IF Head(ins).Address # Head(creds).Sigs[1] THEN "errPublicKeySignatureMismatch"
    ELSE verifyCreds(Tail(ins), Tail(creds))

\* what SemanticVerify does after Verify and the fee have been settled
semanticVerifyWith(utx, rules, fee) ==
    LET produced == produceOuts(utx.ExportedOutputs, FlowAdd(EmptyFlow, DIONEAssetID, fee))
        consumed == consumeIns(utx.Ins, EmptyFlow)
    IN  IF Verify(utx, rules) # "nil" THEN Verify(utx, rules)
        ELSE IF FlowVerify(produced, consumed) # "nil" THEN "flowCheckFailed"
        ELSE IF Len(utx.Ins) # Len(utx.Creds) THEN "errMismatchedCredentials"
        ELSE verifyCreds(utx.Ins, utx.Creds)

\* SemanticVerify with no fee produced on the native asset
SemanticVerifyWithoutFee(utx, rules) == semanticVerifyWith(utx, rules, 0)

\* UnsignedExportTx.SemanticVerify: the error returned
SemanticVerify(utx, rules) == semanticVerifyWith(utx, rules, TxFee(utx, rules))

\* one call of SemanticVerify on the chosen transaction and rules
CallSemanticVerify ==
    /\ exReturn.op = "none"
    /\ exReturn' = [op |-> "SemanticVerify", err |-> SemanticVerify(exTx, exRules),
                    pre |-> exState]
    /\ UNCHANGED <<exTx, exRules, exState, feeVars, blockVars, baseFeeVars, configVars, importVars, updaterVars, syntacticVars>>

\* the inputs the state transfer is run on
TransferInputs ==
    {DELTAInput(a, m, s, n) : a \in Addresses, m \in 0..MaxAmount, s \in Assets, n \in Nonces}

\* the account states the state transfer is run on: every balance of "a1" up to
\* MaxBalance, "a2" either empty or funded, every nonce
TransferStates ==
    {[balance |-> [a \in Addresses |-> IF a = "a1" THEN b1 * x2cRate
                                       ELSE IF rich THEN MaxBalance * x2cRate ELSE 0],
      balanceMC |-> [a \in Addresses |-> IF a = "a1" THEN m1
                                         ELSE IF rich THEN MaxBalance ELSE 0],
      nonce |-> [a \in Addresses |-> IF a = "a1" THEN n1 ELSE n2]] :
        b1 \in 0..MaxBalance, m1 \in 0..MaxBalance, rich \in BOOLEAN,
        n1 \in Nonces, n2 \in Nonces}

\* the credentials that sign the inputs: one signature of the input's address each
MatchingCreds(ins) ==
    [i \in 1..Len(ins) |-> [type |-> "secp256k1fx", Sigs |-> <<ins[i].Address>>]]

OtherAddress(a) == IF a = "a1" THEN "a2" ELSE "a1"

\* the matching credentials and the ways they can be wrong
CredsChoices(ins) ==
    LET ok == MatchingCreds(ins)
    IN  IF ins = <<>>
        THEN {ok, <<[type |-> "secp256k1fx", Sigs |-> <<"a1">>]>>}
        ELSE {ok,
              SubSeq(ok, 1, Len(ok) - 1),
              [ok EXCEPT ![1].type = "other"],
              [ok EXCEPT ![1].Sigs = <<ins[1].Address, ins[1].Address>>],
              [ok EXCEPT ![1].Sigs = <<OtherAddress(ins[1].Address)>>]}

ExportTx(net, chain, dest, ins, outs, creds) ==
    [NetworkID |-> net, BlockchainID |-> chain, DestinationChain |-> dest,
     Ins |-> ins, ExportedOutputs |-> outs, Creds |-> creds]

\* well-addressed, correctly signed transactions of every input and output amount
FlowTxs ==
    {ExportTx("thisNetwork", "thisChain", "AChain", ins, outs, MatchingCreds(ins)) :
        ins \in SeqsUpTo2({DELTAInput(a, m, s, 0) :
                              a \in Addresses, m \in 0..MaxAmount, s \in Assets}),
        outs \in SeqsUpTo2({[AssetID |-> s, Amount |-> m] :
                               s \in Assets, m \in 0..MaxAmount})}

\* well-addressed, correctly signed transactions whose inputs are of the size of
\* the flat fee
FlatFeeTxs ==
    {ExportTx("thisNetwork", "thisChain", "AChain", ins, outs, MatchingCreds(ins)) :
        ins \in SeqsUpTo2({DELTAInput(a, m, s, 0) :
                              a \in Addresses, s \in Assets,
                              m \in 0..MaxAmount \cup
                                    {OdysseyAtomicTxFee + k : k \in 0..MaxAmount}}),
        outs \in SeqsUpTo2({[AssetID |-> s, Amount |-> m] :
                               s \in Assets, m \in 0..MaxAmount})}

\* transactions of every network, chain, peer chain and credential defect
FormTxs ==
    UNION {{ExportTx(net, chain, dest, ins, outs, creds) : creds \in CredsChoices(ins)} :
        net \in {"thisNetwork", "otherNetwork"},
        chain \in {"thisChain", "otherChain"},
        dest \in {"AChain", "OmegaChain", "thisChain", "otherSubnetChain"},
        ins \in SeqsUpTo2({DELTAInput(a, MaxAmount, s, 0) : a \in Addresses, s \in Assets}),
        outs \in SeqsUpTo2({[AssetID |-> s, Amount |-> 1] : s \in Assets})}

(***************************************************************************)
(* Dynamic fees: CalcBaseFee and the rollup window (dynamic_fees.go)       *)
(***************************************************************************)
\* The amounts of the source do not fit the model checker's integers: base fees
\* are counted in units of 10^9 wei, gas in units of 50,000, and the 64-bit
\* counters of the window saturate at MaxUint64 = 2^10 - 1.
MaxUint64 == 1023
LongLen == 8
OdyPhase3ExtraDataSize == 80
OdyPhase3MinBaseFee == 75
OdyPhase3MaxBaseFee == 225
OdyPhase3InitialBaseFee == 225
OdyPhase3TargetGas == 200
OdyPhase4MinBaseFee == 25
OdyPhase4MaxBaseFee == 1000
OdyPhase4BaseFeeChangeDenominator == 12
OdyPhase5TargetGas == 300
OdyPhase5BaseFeeChangeDenominator == 36
OdyPhase3BlockGasFee == 20
OdyPhase4MinBlockGasCost == 0
OdyPhase4MaxBlockGasCost == 20
OdyPhase4BlockGasCostStep == 1
OdyPhase5BlockGasCostStep == 4
OdyPhase4TargetBlockRate == 2
rollupWindow == 10

\* a nil pointer to a number: an activation time that is not set, a header field
\* that is absent, an upper bound that is not given
Nil == -1

\* utils.IsTimestampForked: the fork is set and its time has come
IsTimestampForked(s, head) == s # Nil /\ s <= head

IsOdyPhase3(config, time) == IsTimestampForked(config.OdyPhase3BlockTimestamp, time)
IsOdyPhase4(config, time) == IsTimestampForked(config.OdyPhase4BlockTimestamp, time)
IsOdyPhase5(config, time) == IsTimestampForked(config.OdyPhase5BlockTimestamp, time)

\* math.SafeAdd followed by the saturation every caller applies on overflow
SafeAddSaturating(x, y) == IF x + y > MaxUint64 THEN MaxUint64 ELSE x + y

Max(x, y) == IF x < y THEN y ELSE x

\* selectBigWithinBounds with the lower bound ignored
selectBigBelowUpperBound(lowerBound, value, upperBound) ==
    IF upperBound # Nil /\ value > upperBound THEN upperBound ELSE value

\* selectBigWithinBounds with the upper bound ignored
selectBigAboveLowerBound(lowerBound, value, upperBound) ==
    IF lowerBound # Nil /\ value < lowerBound THEN lowerBound ELSE value

\* selectBigWithinBounds: value, or the bound it lies beyond; a nil bound is no bound
selectBigWithinBounds(lowerBound, value, upperBound) ==
    IF lowerBound # Nil /\ value < lowerBound THEN lowerBound
    ELSE IF upperBound # Nil /\ value > upperBound THEN upperBound
    ELSE value

\* a byte slice holding longs: its length in bytes and the big-endian counters
\* of its whole 8-byte groups
Bytes(n, longs) == [len |-> n, longs |-> longs]
ZeroLongs(n) == [i \in 1..n |-> 0]
NilBytes == Bytes(0, <<>>)

\* rollWindow moving the counters towards the back of the slice
rollLongWindowToTheBack(consumptionWindow, roll) ==
    IF consumptionWindow.len % LongLen # 0
    THEN [err |-> "errWindowNotMultipleOfSize", window |-> NilBytes]
    ELSE LET n == Len(consumptionWindow.longs)
             res == [i \in 1..n |-> IF i - roll >= 1
                                    THEN consumptionWindow.longs[i - roll] ELSE 0]
         IN  [err |-> "nil", window |-> Bytes(consumptionWindow.len, res)]

\* rollWindow on 8-byte values: a zeroed slice of the same length with the
\* counters from position roll on copied to its front
rollLongWindow(consumptionWindow, roll) ==
    IF consumptionWindow.len % LongLen # 0
    THEN [err |-> "errWindowNotMultipleOfSize", window |-> NilBytes]
    ELSE LET n == Len(consumptionWindow.longs)
             bound == roll * LongLen
             res == IF bound > consumptionWindow.len
                    THEN ZeroLongs(n)
                    ELSE [i \in 1..n |-> IF i + roll <= n
                                         THEN consumptionWindow.longs[i + roll] ELSE 0]
         IN  [err |-> "nil", window |-> Bytes(consumptionWindow.len, res)]

\* sumLongWindow: the sum of the first numLongs counters, MaxUint64 on overflow
RECURSIVE sumLongs(_, _, _, _)
sumLongs(longs, i, numLongs, sum) ==
    IF i > numLongs THEN sum
    ELSE IF sum + longs[i] > MaxUint64 THEN MaxUint64
    ELSE sumLongs(longs, i + 1, numLongs, sum + longs[i])

sumLongWindow(window, numLongs) == sumLongs(window.longs, 1, numLongs, 0)

\* updateLongWindow with the addition wrapping around at the width of the counter
updateLongWindowWrapping(window, start, gasConsumed) ==
    LET slot == (start \div LongLen) + 1
    IN  [window EXCEPT !.longs[slot] = (@ + gasConsumed) % (MaxUint64 + 1)]

\* updateLongWindow: gasConsumed added to the counter at byte offset start
updateLongWindow(window, start, gasConsumed) ==
    LET slot == (start \div LongLen) + 1
    IN  [window EXCEPT !.longs[slot] = SafeAddSaturating(@, gasConsumed)]

\* calcBlockGasCost with the moved cost not held within the bounds
calcBlockGasCostUnbounded(targetBlockRate, minBlockGasCost, maxBlockGasCost, blockGasCostStep, parentBlockGasCost, parentTime, currentTime) ==
    IF parentBlockGasCost = Nil THEN minBlockGasCost
    ELSE LET timeElapsed == IF parentTime <= currentTime THEN currentTime - parentTime ELSE 0
             blockGasCost ==
                 IF timeElapsed < targetBlockRate
                 THEN parentBlockGasCost + blockGasCostStep * (targetBlockRate - timeElapsed)
                 ELSE parentBlockGasCost - blockGasCostStep * (timeElapsed - targetBlockRate)
         IN  IF blockGasCost < 0 \/ blockGasCost > MaxUint64 THEN MaxUint64 ELSE blockGasCost

\* calcBlockGasCost: the parent's cost moved by a step per second away from the
\* target block rate, within the bounds
calcBlockGasCost(targetBlockRate, minBlockGasCost, maxBlockGasCost, blockGasCostStep, parentBlockGasCost, parentTime, currentTime) ==
    IF parentBlockGasCost = Nil THEN minBlockGasCost
    ELSE LET timeElapsed == IF parentTime <= currentTime THEN currentTime - parentTime ELSE 0
             blockGasCost ==
                 IF timeElapsed < targetBlockRate
                 THEN parentBlockGasCost + blockGasCostStep * (targetBlockRate - timeElapsed)
                 ELSE parentBlockGasCost - blockGasCostStep * (timeElapsed - targetBlockRate)
             bounded == selectBigWithinBounds(minBlockGasCost, blockGasCost, maxBlockGasCost)
         IN  IF bounded < 0 \/ bounded > MaxUint64 THEN MaxUint64 ELSE bounded

NoBaseFee == [called |-> FALSE, err |-> "nil", window |-> NilBytes, baseFee |-> Nil]
BaseFeeReturn(err, window, baseFee) ==
    [called |-> TRUE, err |-> err, window |-> window, baseFee |-> baseFee]

\* the gas CalcBaseFee adds to the window for the parent block
addedGas(parent, timestamp, isOdyPhase4, isOdyPhase5) ==
    LET blockGasCost ==
            IF isOdyPhase5 THEN 0
            ELSE IF isOdyPhase4
            THEN calcBlockGasCost(OdyPhase4TargetBlockRate, OdyPhase4MinBlockGasCost,
                                  OdyPhase4MaxBlockGasCost, OdyPhase4BlockGasCostStep,
                                  parent.BlockGasCost, parent.Time, timestamp)
            ELSE OdyPhase3BlockGasFee
        parentExtraStateGasUsed ==
            IF (isOdyPhase5 \/ isOdyPhase4) /\ parent.ExtDataGasUsed # Nil
            THEN parent.ExtDataGasUsed ELSE 0
        added == SafeAddSaturating(parent.GasUsed, parentExtraStateGasUsed)
    IN  IF isOdyPhase5 THEN added ELSE SafeAddSaturating(added, blockGasCost)

\* movedBaseFee with no least change of one
movedBaseFeeWithoutLeastChange(parentBaseFee, totalGas, parentGasTarget, baseFeeChangeDenominator, roll) ==
    IF totalGas > parentGasTarget
    THEN parentBaseFee + (((parentBaseFee * (totalGas - parentGasTarget)) \div parentGasTarget)
                             \div baseFeeChangeDenominator)
    ELSE parentBaseFee - (((parentBaseFee * (parentGasTarget - totalGas)) \div parentGasTarget)
                             \div baseFeeChangeDenominator)

\* movedBaseFee with the increase not divided by the change denominator
movedBaseFeeUndivided(parentBaseFee, totalGas, parentGasTarget, baseFeeChangeDenominator, roll) ==
    IF totalGas > parentGasTarget
    THEN parentBaseFee + Max((parentBaseFee * (totalGas - parentGasTarget)) \div parentGasTarget, 1)
    ELSE LET y == (parentBaseFee * (parentGasTarget - totalGas)) \div parentGasTarget
             baseFeeDelta == Max(y \div baseFeeChangeDenominator, 1)
         IN  IF roll > rollupWindow
             THEN parentBaseFee - baseFeeDelta * (roll \div rollupWindow)
             ELSE parentBaseFee - baseFeeDelta

\* movedBaseFee with the decrease applied once whatever the roll
movedBaseFeeWithoutRollFactor(parentBaseFee, totalGas, parentGasTarget, baseFeeChangeDenominator, roll) ==
    IF totalGas > parentGasTarget
    THEN LET y == (parentBaseFee * (totalGas - parentGasTarget)) \div parentGasTarget
         IN  parentBaseFee + Max(y \div baseFeeChangeDenominator, 1)
    ELSE LET y == (parentBaseFee * (parentGasTarget - totalGas)) \div parentGasTarget
         IN  parentBaseFee - Max(y \div baseFeeChangeDenominator, 1)

\* the base fee before the bounds are applied, from the window's total
movedBaseFee(parentBaseFee, totalGas, parentGasTarget, baseFeeChangeDenominator, roll) ==
    IF totalGas > parentGasTarget
    THEN LET y == (parentBaseFee * (totalGas - parentGasTarget)) \div parentGasTarget
             baseFeeDelta == Max(y \div baseFeeChangeDenominator, 1)
         IN  parentBaseFee + baseFeeDelta
    ELSE LET y == (parentBaseFee * (parentGasTarget - totalGas)) \div parentGasTarget
             baseFeeDelta == Max(y \div baseFeeChangeDenominator, 1)
         IN  IF roll > rollupWindow
             THEN parentBaseFee - baseFeeDelta * (roll \div rollupWindow)
             ELSE parentBaseFee - baseFeeDelta

\* what CalcBaseFee does once the parent's window and the timestamps are checked:
\* the window rolled and updated, the base fee moved and bounded
calcBaseFeeFromWindow(config, parent, timestamp) ==
    LET isOdyPhase4 == IsOdyPhase4(config, parent.Time)
        isOdyPhase5 == IsOdyPhase5(config, parent.Time)
        roll == timestamp - parent.Time
        rolled == rollLongWindow(parent.Extra, roll)
        parentGasTarget == IF isOdyPhase5 THEN OdyPhase5TargetGas ELSE OdyPhase3TargetGas
        denominator == IF isOdyPhase5 THEN OdyPhase5BaseFeeChangeDenominator
                       ELSE OdyPhase4BaseFeeChangeDenominator
        newRollupWindow ==
            IF roll < rollupWindow
            THEN updateLongWindow(rolled.window, (rollupWindow - 1 - roll) * LongLen,
                                  addedGas(parent, timestamp, isOdyPhase4, isOdyPhase5))
            ELSE rolled.window
        totalGas == sumLongWindow(newRollupWindow, rollupWindow)
        moved == movedBaseFee(parent.BaseFee, totalGas, parentGasTarget, denominator, roll)
    IN  IF rolled.err # "nil"
        THEN BaseFeeReturn(rolled.err, NilBytes, Nil)
        ELSE IF totalGas = parentGasTarget
        THEN BaseFeeReturn("nil", newRollupWindow, parent.BaseFee)
        ELSE IF isOdyPhase5
        THEN BaseFeeReturn("nil", newRollupWindow,
                           selectBigWithinBounds(OdyPhase4MinBaseFee, moved, Nil))
        ELSE IF isOdyPhase4
        THEN BaseFeeReturn("nil", newRollupWindow,
                           selectBigWithinBounds(OdyPhase4MinBaseFee, moved, OdyPhase4MaxBaseFee))
        ELSE BaseFeeReturn("nil", newRollupWindow,
                           selectBigWithinBounds(OdyPhase3MinBaseFee, moved, OdyPhase3MaxBaseFee))

\* the first EIP-1559 block and the child of the genesis block: the initial
\* slice and the initial base fee
initialBaseFee(config, parent) == ~IsOdyPhase3(config, parent.Time) \/ parent.Number = 0
InitialReturn ==
    BaseFeeReturn("nil", Bytes(OdyPhase3ExtraDataSize, ZeroLongs(rollupWindow)),
                  OdyPhase3InitialBaseFee)

\* CalcBaseFee refusing a child timestamp equal to the parent's
CalcBaseFeeRejectingEqualTimestamps(config, parent, timestamp) ==
    IF initialBaseFee(config, parent) THEN InitialReturn
    ELSE IF parent.Extra.len # OdyPhase3ExtraDataSize
    THEN BaseFeeReturn("errExtraLength", NilBytes, Nil)
    ELSE IF timestamp <= parent.Time
    THEN BaseFeeReturn("errTimestampBeforeParent", NilBytes, Nil)
    ELSE calcBaseFeeFromWindow(config, parent, timestamp)

\* CalcBaseFee: the window and the base fee of the child of parent at timestamp
CalcBaseFee(config, parent, timestamp) ==
    IF initialBaseFee(config, parent) THEN InitialReturn
    ELSE IF parent.Extra.len # OdyPhase3ExtraDataSize
    THEN BaseFeeReturn("errExtraLength", NilBytes, Nil)
    ELSE IF timestamp < parent.Time
    THEN BaseFeeReturn("errTimestampBeforeParent", NilBytes, Nil)
    ELSE calcBaseFeeFromWindow(config, parent, timestamp)

\* the activation times CalcBaseFee reads from params.ChainConfig
ForkTimes(odyPhase3, odyPhase4, odyPhase5) ==
    [OdyPhase3BlockTimestamp |-> odyPhase3, OdyPhase4BlockTimestamp |-> odyPhase4,
     OdyPhase5BlockTimestamp |-> odyPhase5]
NoForks == ForkTimes(Nil, Nil, Nil)
StagedForks == ForkTimes(0, 2, 4)

\* the fields of types.Header CalcBaseFee reads
Header(time, number, extra, gasUsed, extDataGasUsed, blockGasCost, baseFee) ==
    [Time |-> time, Number |-> number, Extra |-> extra, GasUsed |-> gasUsed,
     ExtDataGasUsed |-> extDataGasUsed, BlockGasCost |-> blockGasCost, BaseFee |-> baseFee]

\* windows of rollupWindow counters: empty, at the OdyPhase3 target, holding gas
\* in the oldest slot only, in the newest slot only, summing beyond MaxUint64,
\* and with a different count in every slot
Windows ==
    {Bytes(OdyPhase3ExtraDataSize, longs) :
        longs \in {ZeroLongs(rollupWindow),
                   [i \in 1..rollupWindow |-> 20],
                   [i \in 1..rollupWindow |-> IF i = 1 THEN 290 ELSE 0],
                   [i \in 1..rollupWindow |-> IF i = rollupWindow THEN 180 ELSE 0],
                   [i \in 1..rollupWindow |-> 110],
                   [i \in 1..rollupWindow |-> i]}}
\* header Extra that is not a window: empty, one counter short, one byte and
\* one counter too long
BadExtras ==
    {Bytes(0, <<>>), Bytes(72, ZeroLongs(9)), Bytes(81, ZeroLongs(10)), Bytes(88, ZeroLongs(11))}
GasChoices == {0, 1, 100, 180, 280, 400, MaxUint64}
Rolls == {0, 1, 2, 9, 10, 11, 25}
\* the base fees a verified header can carry under the phase active at its time
BaseFeesAt(config, time) ==
    IF IsOdyPhase5(config, time) THEN {OdyPhase4MinBaseFee, 150, OdyPhase4MaxBaseFee, 3000}
    ELSE IF IsOdyPhase4(config, time) THEN {OdyPhase4MinBaseFee, 75, 150, OdyPhase4MaxBaseFee}
    ELSE {OdyPhase3MinBaseFee, 76, 150, OdyPhase3MaxBaseFee}

\* a call past the initial-fee case on a well-formed parent
WindowCall ==
    \E time \in {1, 3, 5}, number \in 1..MaxBlockNumber, extra \in Windows,
       gasUsed \in GasChoices, ext \in {Nil, 0, 20}, cost \in {Nil, 10, 20}, roll \in Rolls :
        \E baseFee \in BaseFeesAt(StagedForks, time) :
            bfIn = [config |-> StagedForks,
                    parent |-> Header(time, number, extra, gasUsed, ext, cost, baseFee),
                    timestamp |-> time + roll]
\* a call on a parent before OdyPhase3 or on the genesis block, whatever its Extra
InitialCall ==
    \E config \in {NoForks, StagedForks}, time \in {1, 3}, number \in 0..MaxBlockNumber,
       extra \in BadExtras \cup {Bytes(OdyPhase3ExtraDataSize, ZeroLongs(rollupWindow))},
       gasUsed \in {0, 100}, timestamp \in {0, 1, 3, 4} :
        /\ config = NoForks \/ number = 0
        /\ bfIn = [config |-> config,
                   parent |-> Header(time, number, extra, gasUsed, Nil, Nil, Nil),
                   timestamp |-> timestamp]
\* a call past the initial-fee case with a malformed Extra or an earlier child
MalformedCall ==
    \E time \in {1, 3, 5}, number \in 1..MaxBlockNumber,
       extra \in BadExtras \cup {Bytes(OdyPhase3ExtraDataSize, ZeroLongs(rollupWindow))},
       gasUsed \in {0, 100}, timestamp \in {0, 1, 2, 3, 5, 6} :
        /\ extra \in BadExtras \/ timestamp < time
        /\ bfIn = [config |-> StagedForks,
                   parent |-> Header(time, number, extra, gasUsed, 0, 10, 150),
                   timestamp |-> timestamp]

IdleBaseFee ==
    /\ bfIn = [config |-> NoForks,
               parent |-> Header(0, 0, NilBytes, 0, Nil, Nil, Nil), timestamp |-> 0]
    /\ bfOut = NoBaseFee

\* one call of CalcBaseFee on the chosen configuration, parent and timestamp
CallCalcBaseFee ==
    /\ ~bfOut.called
    /\ bfOut' = CalcBaseFee(bfIn.config, bfIn.parent, bfIn.timestamp)
    /\ UNCHANGED bfIn
    /\ UNCHANGED <<feeVars, blockVars, exportVars, configVars, importVars, updaterVars, syntacticVars>>

(***************************************************************************)
(* Chain configuration: fork order and compatibility (params/config.go)    *)
(***************************************************************************)
\* the forks keyed by height and the upgrades keyed by timestamp, as the fields
\* of params.ChainConfig, in the canonical order
BlockFields ==
    <<"HomesteadBlock", "DAOForkBlock", "EIP150Block", "EIP155Block", "EIP158Block",
      "ByzantiumBlock", "ConstantinopleBlock", "PetersburgBlock", "IstanbulBlock",
      "MuirGlacierBlock">>
TimestampFields ==
    <<"OdyPhase1BlockTimestamp", "OdyPhase2BlockTimestamp", "OdyPhase3BlockTimestamp",
      "OdyPhase4BlockTimestamp", "OdyPhase5BlockTimestamp", "OdyPhasePre6BlockTimestamp",
      "OdyPhase6BlockTimestamp", "OdyPhasePost6BlockTimestamp", "OdyPhase7BlockTimestamp",
      "BanffBlockTimestamp", "CortinaBlockTimestamp", "DUpgradeBlockTimestamp", "CancunTime">>
OptionalFields == {"DAOForkBlock", "MuirGlacierBlock"}

Range(seq) == {seq[i] : i \in DOMAIN seq}
IndexOf(seq, x) == CHOOSE i \in DOMAIN seq : seq[i] = x

\* a params.ChainConfig from the heights and the timestamps in canonical order
ChainConfig(blocks, timestamps, daoForkSupport, chainID) ==
    [f \in Range(BlockFields) \cup Range(TimestampFields) \cup {"DAOForkSupport", "ChainID"} |->
        IF f \in Range(BlockFields) THEN blocks[IndexOf(BlockFields, f)]
        ELSE IF f \in Range(TimestampFields) THEN timestamps[IndexOf(TimestampFields, f)]
        ELSE IF f = "DAOForkSupport" THEN daoForkSupport
        ELSE chainID]

\* utils.IsBlockForked: the fork is set and the head has reached its height
IsBlockForked(s, head) == s # Nil /\ head # Nil /\ s <= head

\* the entries of the lists CheckConfigForkOrder walks
ForkList(c, fields) ==
    [i \in DOMAIN fields |->
        [name |-> fields[i], at |-> c[fields[i]], optional |-> fields[i] \in OptionalFields]]
NoFork == [name |-> "", at |-> Nil, optional |-> FALSE]

\* the loop of CheckConfigForkOrder over the forks keyed by height
RECURSIVE checkBlockForks(_, _)
checkBlockForks(forks, lastFork) ==
    IF forks = <<>> THEN "nil"
    ELSE LET curFork == Head(forks)
         IN  IF curFork.at # Nil /\ curFork.at # 0 THEN "errNonGenesisForkByHeight"
             ELSE IF lastFork.name # "" /\ lastFork.at = Nil /\ curFork.at # Nil
             THEN "errForkNotEnabled"
             ELSE IF lastFork.name # "" /\ lastFork.at # Nil /\ curFork.at # Nil
                     /\ lastFork.at > curFork.at
             THEN "errForkOrdering"
             ELSE checkBlockForks(Tail(forks),
                                  IF ~curFork.optional \/ curFork.at # Nil THEN curFork ELSE lastFork)

\* the loop of CheckConfigForkOrder over the upgrades keyed by timestamp
RECURSIVE checkTimestampForks(_, _)
checkTimestampForks(forks, lastFork) ==
    IF forks = <<>> THEN "nil"
    ELSE LET curFork == Head(forks)
         IN  IF lastFork.name # "" /\ lastFork.at = Nil /\ curFork.at # Nil
             THEN "errForkNotEnabled"
             ELSE IF lastFork.name # "" /\ lastFork.at # Nil /\ curFork.at # Nil
                     /\ lastFork.at > curFork.at
             THEN "errForkOrdering"
             ELSE checkTimestampForks(Tail(forks),
                                      IF ~curFork.optional \/ curFork.at # Nil THEN curFork ELSE lastFork)

\* CheckConfigForkOrder stopping after the forks keyed by height
CheckConfigForkOrderByHeightOnly(c) == checkBlockForks(ForkList(c, BlockFields), NoFork)

\* ChainConfig.CheckConfigForkOrder: the error returned
CheckConfigForkOrder(c) ==
    IF checkBlockForks(ForkList(c, BlockFields), NoFork) # "nil"
    THEN checkBlockForks(ForkList(c, BlockFields), NoFork)
    ELSE checkTimestampForks(ForkList(c, TimestampFields), NoFork)

\* ConfigCompatError; a nil error has no What
NoCompatError ==
    [What |-> "nil", StoredBlock |-> Nil, NewBlock |-> Nil, StoredTime |-> Nil,
     NewTime |-> Nil, RewindToBlock |-> 0, RewindToTime |-> 0]

\* what newBlockCompatError and newTimestampCompatError rewind to
rewindTo(stored, new) ==
    LET rew == IF stored = Nil THEN new
               ELSE IF new = Nil \/ stored < new THEN stored
               ELSE new
    IN  IF rew # Nil /\ rew > 0 THEN rew - 1 ELSE 0

newBlockCompatError(what, storedblock, newblock) ==
    [What |-> what, StoredBlock |-> storedblock, NewBlock |-> newblock,
     StoredTime |-> Nil, NewTime |-> Nil,
     RewindToBlock |-> rewindTo(storedblock, newblock), RewindToTime |-> 0]

newTimestampCompatError(what, storedtime, newtime) ==
    [What |-> what, StoredBlock |-> Nil, NewBlock |-> Nil,
     StoredTime |-> storedtime, NewTime |-> newtime,
     RewindToBlock |-> 0, RewindToTime |-> rewindTo(storedtime, newtime)]

configBlockEqual(x, y) == x = y
configTimestampEqual(x, y) == x = y
isForkBlockIncompatible(s1, s2, head) ==
    (IsBlockForked(s1, head) \/ IsBlockForked(s2, head)) /\ ~configBlockEqual(s1, s2)
isForkTimestampIncompatible(s1, s2, head) ==
    (IsTimestampForked(s1, head) \/ IsTimestampForked(s2, head)) /\ ~configTimestampEqual(s1, s2)

\* the checks of checkCompatible on the upgrades keyed by timestamp, in order;
\* the last one reports the configurations' DUpgrade timestamps
RECURSIVE checkCompatibleTimestamps(_, _, _, _)
checkCompatibleTimestamps(fields, c, newcfg, time) ==
    IF fields = <<>> THEN NoCompatError
    ELSE LET f == Head(fields)
         IN  IF isForkTimestampIncompatible(c[f], newcfg[f], time)
             THEN IF f = "CancunTime"
                  THEN newTimestampCompatError(f, c.DUpgradeBlockTimestamp,
                                               newcfg.DUpgradeBlockTimestamp)
                  ELSE newTimestampCompatError(f, c[f], newcfg[f])
             ELSE checkCompatibleTimestamps(Tail(fields), c, newcfg, time)

\* ChainConfig.checkCompatible: the first incompatibility at the given head
checkCompatible(c, newcfg, height, time) ==
    LET block(f) == newBlockCompatError(f, c[f], newcfg[f])
        incompatible(f) == isForkBlockIncompatible(c[f], newcfg[f], height)
    IN  IF incompatible("HomesteadBlock") THEN block("HomesteadBlock")
        ELSE IF incompatible("DAOForkBlock") THEN block("DAOForkBlock")
        ELSE IF IsBlockForked(c.DAOForkBlock, height)
                /\ c.DAOForkSupport # newcfg.DAOForkSupport
        THEN newBlockCompatError("DAOForkSupport", c.DAOForkBlock, newcfg.DAOForkBlock)
        ELSE IF incompatible("EIP150Block") THEN block("EIP150Block")
        ELSE IF incompatible("EIP155Block") THEN block("EIP155Block")
        ELSE IF incompatible("EIP158Block") THEN block("EIP158Block")
        ELSE IF IsBlockForked(c.EIP158Block, height)
                /\ ~configBlockEqual(c.ChainID, newcfg.ChainID)
        THEN newBlockCompatError("ChainID", c.EIP158Block, newcfg.EIP158Block)
        ELSE IF incompatible("ByzantiumBlock") THEN block("ByzantiumBlock")
        ELSE IF incompatible("ConstantinopleBlock") THEN block("ConstantinopleBlock")
        ELSE IF incompatible("PetersburgBlock")
                /\ isForkBlockIncompatible(c.ConstantinopleBlock, newcfg.PetersburgBlock, height)
        THEN block("PetersburgBlock")
        ELSE IF incompatible("IstanbulBlock") THEN block("IstanbulBlock")
        ELSE IF incompatible("MuirGlacierBlock") THEN block("MuirGlacierBlock")
        ELSE checkCompatibleTimestamps(TimestampFields, c, newcfg, time)

\* the flags of params.Rules for the upgrades keyed by timestamp, in the order
\* of TimestampFields
RuleFlags ==
    <<"IsOdyPhase1", "IsOdyPhase2", "IsOdyPhase3", "IsOdyPhase4", "IsOdyPhase5", "IsOdyPhasePre6",
      "IsOdyPhase6", "IsOdyPhasePost6", "IsOdyPhase7", "IsBanff", "IsCortina", "IsDUpgrade",
      "IsCancun">>
NoRules == [f \in Range(RuleFlags) |-> FALSE]

\* OdysseyRules with IsBanff read from the DUpgrade timestamp
OdysseyRulesBanffFromDUpgrade(c, blockNum, timestamp) ==
    [f \in Range(RuleFlags) |->
        IF f = "IsBanff" THEN IsTimestampForked(c.DUpgradeBlockTimestamp, timestamp)
        ELSE IsTimestampForked(c[TimestampFields[IndexOf(RuleFlags, f)]], timestamp)]

\* ChainConfig.OdysseyRules: every flag of an upgrade keyed by timestamp is
\* IsTimestampForked of that upgrade's timestamp (IsCancun is set by rules)
OdysseyRules(c, blockNum, timestamp) ==
    [f \in Range(RuleFlags) |->
        IsTimestampForked(c[TimestampFields[IndexOf(RuleFlags, f)]], timestamp)]

NoConfigCall ==
    [op |-> "none", pc |-> "idle", bhead |-> 0, btime |-> 0,
     lasterr |-> NoCompatError, err |-> "nil", rules |-> NoRules]

\* heights all at genesis and every upgrade at time 0
GenesisConfig ==
    ChainConfig([i \in DOMAIN BlockFields |-> 0], [i \in DOMAIN TimestampFields |-> 0], FALSE, 1)

IdleConfig ==
    /\ cfgIn = [stored |-> GenesisConfig, new |-> GenesisConfig, height |-> 0, time |-> 0]
    /\ cfgOut = NoConfigCall

\* one call of CheckConfigForkOrder on the stored configuration
CallCheckConfigForkOrder ==
    /\ cfgOut.op = "none"
    /\ cfgOut' = [cfgOut EXCEPT !.op = "CheckConfigForkOrder", !.pc = "returned",
                                 !.err = CheckConfigForkOrder(cfgIn.stored)]
    /\ UNCHANGED <<cfgIn, feeVars, blockVars, exportVars, baseFeeVars, importVars, updaterVars, syntacticVars>>

\* one call of OdysseyRules on the stored configuration at a chosen timestamp
CallOdysseyRules ==
    /\ cfgOut.op = "none"
    /\ \E timestamp \in 0..(MaxTime + 1) :
           cfgOut' = [cfgOut EXCEPT !.op = "OdysseyRules", !.pc = "returned",
                                    !.btime = timestamp,
                                    !.rules = OdysseyRules(cfgIn.stored, cfgIn.height, timestamp)]
    /\ UNCHANGED <<cfgIn, feeVars, blockVars, exportVars, baseFeeVars, importVars, updaterVars, syntacticVars>>

\* CheckCompatible is entered: the head it starts from, no error found yet
CallCheckCompatible ==
    /\ cfgOut.op = "none"
    /\ cfgOut' = [cfgOut EXCEPT !.op = "CheckCompatible", !.pc = "loop",
                                 !.bhead = cfgIn.height, !.btime = cfgIn.time,
                                 !.lasterr = NoCompatError]
    /\ UNCHANGED <<cfgIn, feeVars, blockVars, exportVars, baseFeeVars, importVars, updaterVars, syntacticVars>>

\* one iteration of the loop of CheckCompatible: it breaks and returns lasterr,
\* or keeps the error and rewinds the head
CheckCompatibleIterate ==
    /\ cfgOut.op = "CheckCompatible" /\ cfgOut.pc = "loop"
    /\ LET err == checkCompatible(cfgIn.stored, cfgIn.new, cfgOut.bhead, cfgOut.btime)
       IN  IF \/ err = NoCompatError
              \/ /\ cfgOut.lasterr # NoCompatError
                 /\ err.RewindToBlock = cfgOut.lasterr.RewindToBlock
                 /\ err.RewindToTime = cfgOut.lasterr.RewindToTime
           THEN cfgOut' = [cfgOut EXCEPT !.pc = "returned"]
           ELSE IF err.RewindToTime > 0
           THEN cfgOut' = [cfgOut EXCEPT !.lasterr = err, !.btime = err.RewindToTime]
           ELSE cfgOut' = [cfgOut EXCEPT !.lasterr = err, !.bhead = err.RewindToBlock]
    /\ UNCHANGED <<cfgIn, feeVars, blockVars, exportVars, baseFeeVars, importVars, updaterVars, syntacticVars>>

\* the timestamps of the upgrades: the first j at a, the next up to the k-th at
\* b, the rest not set
StagedTimestamps(j, a, k, b) ==
    [i \in DOMAIN TimestampFields |-> IF i <= j THEN a ELSE IF i <= k THEN b ELSE Nil]
\* the heights of the forks: the first k at genesis, the rest not set, the two
\* optional ones set or not
GenesisBlocks(k, dao, muirGlacier) ==
    [i \in DOMAIN BlockFields |->
        IF BlockFields[i] = "DAOForkBlock" THEN dao
        ELSE IF BlockFields[i] = "MuirGlacierBlock" THEN muirGlacier
        ELSE IF i <= k THEN 0 ELSE Nil]

\* configurations for CheckConfigForkOrder: up to two heights or two
\* timestamps of a well-ordered configuration replaced
ForkOrderCall ==
    /\ \/ \E p \in DOMAIN BlockFields, q \in DOMAIN BlockFields, v \in {Nil, 0, 1}, w \in {Nil, 0, 1} :
              cfgIn = [stored |-> ChainConfig([[GenesisBlocks(10, Nil, 0) EXCEPT ![p] = v] EXCEPT ![q] = w],
                                              StagedTimestamps(5, 1, 11, 2), FALSE, 1),
                       new |-> GenesisConfig, height |-> 0, time |-> 0]
       \/ \E p \in DOMAIN TimestampFields, q \in DOMAIN TimestampFields,
             v \in {Nil} \cup 0..MaxTime, w \in {Nil} \cup 0..MaxTime :
              cfgIn = [stored |-> ChainConfig(GenesisBlocks(10, Nil, 0),
                                              [[StagedTimestamps(5, 1, 11, 2) EXCEPT ![p] = v]
                                                  EXCEPT ![q] = w], FALSE, 1),
                       new |-> GenesisConfig, height |-> 0, time |-> 0]

\* pairs of configurations CheckConfigForkOrder accepts that differ in the
\* timestamps of the upgrades, and the head's time
TimestampCompatCall ==
    \E js \in {0, 11, 12}, ks \in {12, 13}, jn \in {0, 11, 12}, kn \in {12, 13},
       as \in 0..MaxTime, bs \in 0..MaxTime, an \in 0..MaxTime, bn \in 0..MaxTime,
       time \in 0..(MaxTime + 1) :
        /\ as <= bs /\ an <= bn
        /\ cfgIn = [stored |-> ChainConfig(GenesisBlocks(10, Nil, 0),
                                           StagedTimestamps(js, as, ks, bs), FALSE, 1),
                    new |-> ChainConfig(GenesisBlocks(10, Nil, 0),
                                        StagedTimestamps(jn, an, kn, bn), FALSE, 1),
                    height |-> 1, time |-> time]

\* pairs of configurations CheckConfigForkOrder accepts that differ in the
\* forks keyed by height, the DAO support flag or the chain id
BlockCompatCall ==
    \E ks \in 7..10, kn \in 7..10, daos \in {Nil, 0}, daon \in {Nil, 0},
       muirs \in {Nil, 0}, muirn \in {Nil, 0}, support \in BOOLEAN, chainID \in {1, 2},
       height \in {0, 1} :
        /\ (muirs = Nil \/ ks >= 9) /\ (muirn = Nil \/ kn >= 9)
        /\ cfgIn = [stored |-> ChainConfig(GenesisBlocks(ks, daos, muirs),
                                           StagedTimestamps(5, 1, 11, 2), FALSE, 1),
                    new |-> ChainConfig(GenesisBlocks(kn, daon, muirn),
                                        StagedTimestamps(5, 1, 11, 2), support, chainID),
                    height |-> height, time |-> 1]

\* the timestamps of the preset configurations: every upgrade at 0 but the ones
\* named, which are not set
PresetTimestamps(notSet) ==
    [i \in DOMAIN TimestampFields |-> IF TimestampFields[i] \in notSet THEN Nil ELSE 0]
\* the configurations of the main network, the test network and the local network
OdysseyMainnetChainConfig ==
    ChainConfig([i \in DOMAIN BlockFields |-> 0],
                PresetTimestamps({"OdyPhase7BlockTimestamp", "DUpgradeBlockTimestamp", "CancunTime"}),
                TRUE, 153)
OdysseyOdytChainConfig ==
    ChainConfig([i \in DOMAIN BlockFields |-> 0],
                PresetTimestamps({"OdyPhase7BlockTimestamp", "DUpgradeBlockTimestamp", "CancunTime"}),
                TRUE, 13)
OdysseyLocalChainConfig ==
    ChainConfig([i \in DOMAIN BlockFields |-> 0],
                PresetTimestamps({"OdyPhase7BlockTimestamp", "CancunTime"}), TRUE, 12)
PresetConfigs == {OdysseyMainnetChainConfig, OdysseyOdytChainConfig, OdysseyLocalChainConfig}

\* CheckConfigForkOrder on a preset configuration
PresetCall ==
    \E c \in PresetConfigs : cfgIn = [stored |-> c, new |-> c, height |-> 0, time |-> 0]

(***************************************************************************)
(* Import transaction: UnsignedImportTx (import_tx.go)                     *)
(***************************************************************************)
\* the outputs of the peer chain an import can name, in the byte order of
\* their ids
UTXOIDs == {"x1", "x2"}
UTXORank(u) == IF u = "x1" THEN 1 ELSE 2

\* dione.TransferableInput: the output consumed, its asset and its amount
TransferableInput(utxo, asset, amt) == [UTXOID |-> utxo, AssetID |-> asset, Amount |-> amt]
\* EVMOutput: the account credited, the amount and the asset
EVMOutput(addr, amt, asset) == [Address |-> addr, Amount |-> amt, AssetID |-> asset]

ImportTx(net, chain, source, ins, outs, creds) ==
    [NetworkID |-> net, BlockchainID |-> chain, SourceChain |-> source,
     ImportedInputs |-> ins, Outs |-> outs, Creds |-> creds]

\* the rules of the upgrade levels as the import reads them
ImportRulesAt(level, baseFee) ==
    [IsOdyPhase1 |-> level >= 1, IsOdyPhase2 |-> level >= 2, IsOdyPhase3 |-> level >= 3,
     IsOdyPhase5 |-> level >= 4, IsBanff |-> level >= 5, baseFee |-> baseFee]
ImportLevels == 0..5

\* utils.IsSortedAndUnique on the imported inputs: strictly by the id of the
\* output consumed
IsSortedAndUniqueInputs(ins) ==
    \A i \in 1..(Len(ins) - 1) : UTXORank(ins[i].UTXOID) < UTXORank(ins[i + 1].UTXOID)

\* slices.IsSortedFunc with EVMOutput.Less: no output is less than the one
\* before it, by address and then by asset id
IsSortedOutputs(outs) ==
    \A i \in 1..(Len(outs) - 1) :
        ~ \/ AddrRank(outs[i + 1].Address) < AddrRank(outs[i].Address)
          \/ /\ outs[i + 1].Address = outs[i].Address
             /\ AssetRank(outs[i + 1].AssetID) < AssetRank(outs[i].AssetID)

\* the first error of the loop over utx.Outs of Verify
RECURSIVE verifyImportOuts(_, _)
verifyImportOuts(outs, rules) ==
    IF outs = <<>> THEN "nil"
    ELSE IF OutputVerify(Head(outs)) # "nil" THEN OutputVerify(Head(outs))
    ELSE IF rules.IsBanff /\ Head(outs).AssetID # DIONEAssetID
    THEN "errImportNonDIONEOutputBanff"
    ELSE verifyImportOuts(Tail(outs), rules)

\* the first error of the loop over utx.ImportedInputs of Verify
RECURSIVE verifyImportIns(_, _)
verifyImportIns(ins, rules) ==
    IF ins = <<>> THEN "nil"
    ELSE IF InputVerify(Head(ins)) # "nil" THEN InputVerify(Head(ins))
    ELSE IF rules.IsBanff /\ Head(ins).AssetID # DIONEAssetID
    THEN "errImportNonDIONEInputBanff"
    ELSE verifyImportIns(Tail(ins), rules)

\* the checks of Verify that come before the order of the inputs is looked at
importVerifyForm(utx, rules) ==
    IF Len(utx.ImportedInputs) = 0 THEN "errNoImportInputs"
    ELSE IF utx.NetworkID # "thisNetwork" THEN "errWrongNetworkID"
    ELSE IF utx.BlockchainID # "thisChain" THEN "errWrongBlockchainID"
    ELSE IF rules.IsOdyPhase3 /\ Len(utx.Outs) = 0 THEN "errNoEVMOutputs"
    ELSE IF rules.IsOdyPhase5 /\ ~SameSubnet(utx.SourceChain) THEN "errWrongChainID"
    ELSE IF ~rules.IsOdyPhase5 /\ utx.SourceChain # "AChain" THEN "errWrongChainID"
    ELSE IF verifyImportOuts(utx.Outs, rules) # "nil" THEN verifyImportOuts(utx.Outs, rules)
    ELSE verifyImportIns(utx.ImportedInputs, rules)

\* Verify asking of the outputs, from OdyPhase2 on, no more than from OdyPhase1 on
ImportVerifySortedOnly(utx, rules) ==
    IF importVerifyForm(utx, rules) # "nil" THEN importVerifyForm(utx, rules)
    ELSE IF ~IsSortedAndUniqueInputs(utx.ImportedInputs) THEN "errInputsNotSortedUnique"
    ELSE IF rules.IsOdyPhase1 /\ ~IsSortedOutputs(utx.Outs) THEN "errOutputsNotSorted"
    ELSE "nil"

\* UnsignedImportTx.Verify: the transaction is well-formed
ImportVerify(utx, rules) ==
    IF importVerifyForm(utx, rules) # "nil" THEN importVerifyForm(utx, rules)
    ELSE IF ~IsSortedAndUniqueInputs(utx.ImportedInputs) THEN "errInputsNotSortedUnique"
    ELSE IF rules.IsOdyPhase2
    THEN IF ~IsSortedAndUnique(utx.Outs) THEN "errOutputsNotSortedUnique" ELSE "nil"
    ELSE IF rules.IsOdyPhase1
    THEN IF ~IsSortedOutputs(utx.Outs) THEN "errOutputsNotSorted" ELSE "nil"
    ELSE "nil"

\* UnsignedImportTx.GasUsed: the unsigned bytes (88 per input, 60 per output),
\* one signature per input and, with fixedFee, the base cost of an atomic
\* transaction
ImportGasUsed(utx, fixedFee) ==
    LET bytes == TxHeaderBytes + 88 * Len(utx.ImportedInputs) + 60 * Len(utx.Outs)
        cost == bytes * TxBytesGas + Len(utx.ImportedInputs) * CostPerSignature
    IN  IF fixedFee THEN cost + AtomicTxBaseCost ELSE cost

\* the fee SemanticVerify produces on the native asset
ImportTxFee(utx, rules) ==
    IF rules.IsOdyPhase3
    THEN CalculateDynamicFee(ImportGasUsed(utx, rules.IsOdyPhase5), rules.baseFee)
    ELSE IF rules.IsOdyPhase2 THEN OdysseyAtomicTxFee
    ELSE 0

\* the loop of SemanticVerify over the outputs fetched from shared memory: the
\* asset of the output, then fx.VerifyTransfer (the credential signs for the
\* owner of the output and the amounts agree)
RECURSIVE verifyImportTransfers(_, _, _)
verifyImportTransfers(ins, creds, utxos) ==
    IF ins = <<>> THEN "nil"
    ELSE LET utxo == utxos[Head(ins).UTXOID]
         IN  IF utxo.AssetID # Head(ins).AssetID THEN "errAssetIDMismatch"
             ELSE IF Head(creds).Sigs # <<utxo.Owner>> \/ utxo.Amount # Head(ins).Amount
             THEN "transferFailed"
             ELSE verifyImportTransfers(Tail(ins), Tail(creds), utxos)

\* what SemanticVerify does after Verify and the fee have been settled
importSemanticVerifyWith(utx, rules, vm, fee) ==
    LET produced == produceOuts(utx.Outs, FlowAdd(EmptyFlow, DIONEAssetID, fee))
        consumed == consumeIns(utx.ImportedInputs, EmptyFlow)
        ids == {utx.ImportedInputs[i].UTXOID : i \in 1..Len(utx.ImportedInputs)}
    IN  IF ImportVerify(utx, rules) # "nil" THEN ImportVerify(utx, rules)
        ELSE IF FlowVerify(produced, consumed) # "nil" THEN "flowCheckFailed"
        ELSE IF Len(utx.Creds) # Len(utx.ImportedInputs) THEN "errMismatchedCredentials"
        ELSE IF ~vm.bootstrapped THEN "nil"
        ELSE IF ~(ids \subseteq DOMAIN vm.utxos) THEN "fetchFailed"
        ELSE IF verifyImportTransfers(utx.ImportedInputs, utx.Creds, vm.utxos) # "nil"
        THEN verifyImportTransfers(utx.ImportedInputs, utx.Creds, vm.utxos)
        ELSE IF ids \cap vm.ancestorInputs # {} THEN "errConflictingAtomicInputs"
        ELSE "nil"

\* SemanticVerify with no fee produced on the native asset
ImportSemanticVerifyWithoutFee(utx, rules, vm) == importSemanticVerifyWith(utx, rules, vm, 0)

\* SemanticVerify going on to shared memory whether the VM is bootstrapped or not
ImportSemanticVerifyAlwaysFetching(utx, rules, vm) ==
    importSemanticVerifyWith(utx, rules, [vm EXCEPT !.bootstrapped = TRUE], ImportTxFee(utx, rules))

\* UnsignedImportTx.SemanticVerify: the error returned
ImportSemanticVerify(utx, rules, vm) ==
    importSemanticVerifyWith(utx, rules, vm, ImportTxFee(utx, rules))

NoImportReturn == [op |-> "none", err |-> "nil"]

\* the outputs the peer chain has put into shared memory for this chain
SharedUTXOs(present) ==
    [u \in present |-> IF u = "x1" THEN [AssetID |-> DIONEAssetID, Amount |-> 1, Owner |-> "a1"]
                       ELSE [AssetID |-> "custom", Amount |-> 1, Owner |-> "a2"]]
ImportVM(bootstrapped_, present, ancestorInputs) ==
    [bootstrapped |-> bootstrapped_, utxos |-> SharedUTXOs(present),
     ancestorInputs |-> ancestorInputs]

\* the import transaction while another specification runs
IdleImport ==
    /\ imTx = ImportTx("thisNetwork", "thisChain", "AChain", <<>>, <<>>, <<>>)
    /\ imRules = ImportRulesAt(0, 0)
    /\ imVM = ImportVM(FALSE, {}, {})
    /\ imReturn = NoImportReturn

\* one call of Verify on the chosen transaction and rules
CallImportVerify ==
    /\ imReturn.op = "none"
    /\ imReturn' = [op |-> "Verify", err |-> ImportVerify(imTx, imRules)]
    /\ UNCHANGED <<imTx, imRules, imVM, feeVars, blockVars, exportVars, baseFeeVars, configVars, updaterVars, syntacticVars>>

\* one call of SemanticVerify on the chosen transaction, rules and VM
CallImportSemanticVerify ==
    /\ imReturn.op = "none"
    /\ imReturn' = [op |-> "SemanticVerify", err |-> ImportSemanticVerify(imTx, imRules, imVM)]
    /\ UNCHANGED <<imTx, imRules, imVM, feeVars, blockVars, exportVars, baseFeeVars, configVars, updaterVars, syntacticVars>>

\* the credentials that sign the imported inputs for the owners of the outputs
ImportCreds(ins) ==
    [i \in 1..Len(ins) |-> [Sigs |-> <<IF ins[i].UTXOID = "x1" THEN "a1" ELSE "a2">>]]

\* the amounts of the flow check: small ones and ones around the flat fee
FlowAmounts == 0..MaxAmount \cup {OdysseyAtomicTxFee + k : k \in 0..MaxAmount}

\* well-addressed, signed imports in the order Verify asks for, of every amount
\* and asset, verified while the VM is bootstrapping
FlowImport ==
    \E n \in 1..2, m \in 0..2, level \in ImportLevels, f \in 0..MaxBaseFee,
       a1 \in FlowAmounts, a2 \in 0..MaxAmount, s1 \in Assets, s2 \in Assets,
       b1 \in 0..MaxAmount, b2 \in 0..MaxAmount, t1 \in Assets, t2 \in Assets :
        LET ins == SubSeq(<<TransferableInput("x1", s1, a1),
                            TransferableInput("x2", s2, a2)>>, 1, n)
            outs == SubSeq(<<EVMOutput("a1", b1, t1), EVMOutput("a2", b2, t2)>>, 1, m)
        IN  /\ n = 1 => (a2 = 0 /\ s2 = DIONEAssetID)
            /\ m < 2 => (b2 = 0 /\ t2 = DIONEAssetID)
            /\ m < 1 => (b1 = 0 /\ t1 = DIONEAssetID)
            /\ imTx = ImportTx("thisNetwork", "thisChain", "AChain", ins, outs,
                               ImportCreds(ins))
            /\ imRules = ImportRulesAt(level, f)
            /\ imVM = ImportVM(FALSE, {}, {})

\* imports with every order of inputs and outputs, and with every defect of
\* network, chain and peer chain
FormImport ==
    \E level \in ImportLevels :
        /\ imRules = ImportRulesAt(level, 1)
        /\ imVM = ImportVM(FALSE, {}, {})
        /\ \/ \E ins \in SeqsUpTo2({TransferableInput(u, s, 1) : u \in UTXOIDs, s \in Assets}),
                 outs \in SeqsUpTo2({EVMOutput(a, 1, s) : a \in Addresses, s \in Assets}) :
                  imTx = ImportTx("thisNetwork", "thisChain", "AChain", ins, outs,
                                  ImportCreds(ins))
           \/ \E net \in {"thisNetwork", "otherNetwork"}, chain \in {"thisChain", "otherChain"},
                 source \in {"AChain", "OmegaChain", "thisChain", "foreignChain"} :
                  imTx = ImportTx(net, chain, source,
                                  <<TransferableInput("x1", DIONEAssetID, MaxAmount)>>,
                                  <<EVMOutput("a1", 1, DIONEAssetID)>>,
                                  <<[Sigs |-> <<"a1">>]>>)

\* a balanced import of the two outputs verified by a bootstrapped VM: every
\* content of shared memory, every set of inputs the ancestors consume, and
\* credentials that match, are short or sign for another owner
BootstrappedImport ==
    \E present \in SUBSET UTXOIDs, ancestorInputs \in SUBSET UTXOIDs, n \in 1..2,
       s2 \in Assets, a1 \in 1..MaxAmount, defect \in {"none", "short", "signer"},
       b \in BOOLEAN :
        LET ins == SubSeq(<<TransferableInput("x1", DIONEAssetID, a1),
                            TransferableInput("x2", s2, 1)>>, 1, n)
            ok == ImportCreds(ins)
        IN  /\ imTx = ImportTx("thisNetwork", "thisChain", "AChain", ins, <<>>,
                               IF defect = "short" THEN Tail(ok)
                               ELSE IF defect = "signer" THEN [ok EXCEPT ![1].Sigs = <<"a2">>]
                               ELSE ok)
            /\ imRules = ImportRulesAt(0, 0)
            /\ imVM = ImportVM(b, present, ancestorInputs)

(***************************************************************************)
(* Gas price updater: gasPriceUpdater (gasprice_update.go)                 *)
(***************************************************************************)
\* the minimum gas prices before the dynamic fee, in units of 10^9
LaunchMinGasPrice == 470
OdyPhase1MinGasPrice == 225

\* the last second the clock of the model reaches, and an activation time an
\* hour past it
ClockEnd == MaxTime + 1
FarFuture == ClockEnd + 3600
ActivationTimes == {Nil} \cup 0..MaxTime \cup {FarFuture}

\* setter.SetGasPrice and setter.SetMinFee on the values the setter holds
ApplySetter(g, setter, value) ==
    IF setter = "SetGasPrice" THEN [g EXCEPT !.price = value] ELSE [g EXCEPT !.minFee = value]

\* the four updates of start, in order: the setter, the activation time and the
\* value
Updates(chainConfig) ==
    <<[setter |-> "SetGasPrice", timestamp |-> chainConfig.OdyPhase1BlockTimestamp,
       price |-> OdyPhase1MinGasPrice],
      [setter |-> "SetGasPrice", timestamp |-> chainConfig.OdyPhase3BlockTimestamp,
       price |-> 0],
      [setter |-> "SetMinFee", timestamp |-> chainConfig.OdyPhase3BlockTimestamp,
       price |-> OdyPhase3MinBaseFee],
      [setter |-> "SetMinFee", timestamp |-> chainConfig.OdyPhase4BlockTimestamp,
       price |-> OdyPhase4MinBaseFee]>>

\* handleUpdate over the updates left: an update without an activation time
\* ends start; one whose time has passed sets its value at once; another adds
\* to the wait group and starts a goroutine that sleeps until the time
RECURSIVE handleUpdates(_, _, _, _)
handleUpdates(updates, g, tasks, now) ==
    IF updates = <<>> THEN [gpu |-> g, tasks |-> tasks]
    ELSE LET u == Head(updates)
         IN  IF u.timestamp = Nil THEN [gpu |-> g, tasks |-> tasks]
             ELSE IF now > u.timestamp
             THEN handleUpdates(Tail(updates), ApplySetter(g, u.setter, u.price), tasks, now)
             ELSE handleUpdates(Tail(updates), [g EXCEPT !.wg = @ + 1],
                                tasks \cup {[setter |-> u.setter, price |-> u.price,
                                             deadline |-> u.timestamp, at |-> "select"]},
                                now)

\* the select of updatePrice with its timer case only
selectReadyTimerOnly(task, now, closed) == IF now >= task.deadline THEN {"timer"} ELSE {}

\* the cases of the select of updatePrice that can proceed: the timer has
\* elapsed, shutdownChan is closed
selectReady(task, now, closed) ==
    (IF now >= task.deadline THEN {"timer"} ELSE {})
        \cup (IF closed THEN {"shutdown"} ELSE {})

NewUpdater(chainConfig) ==
    [chainConfig |-> chainConfig, started |-> FALSE, price |-> 1, minFee |-> Nil,
     wg |-> 0, shutdownClosed |-> FALSE]

\* the updater while another specification runs
IdleUpdater ==
    /\ gpu = NewUpdater([OdyPhase1BlockTimestamp |-> Nil, OdyPhase3BlockTimestamp |-> Nil,
                         OdyPhase4BlockTimestamp |-> Nil])
    /\ gpuTasks = {}
    /\ clock = 0

\* gasPriceUpdater.start
GpuStart ==
    /\ ~gpu.started
    /\ LET r == handleUpdates(Updates(gpu.chainConfig),
                              [gpu EXCEPT !.started = TRUE, !.price = LaunchMinGasPrice],
                              {}, clock)
       IN  /\ gpu' = r.gpu
           /\ gpuTasks' = r.tasks
    /\ UNCHANGED <<clock, feeVars, blockVars, exportVars, baseFeeVars, configVars, importVars, syntacticVars>>

\* a second passes
GpuTick ==
    /\ clock < ClockEnd
    /\ clock' = clock + 1
    /\ UNCHANGED <<gpu, gpuTasks, feeVars, blockVars, exportVars, baseFeeVars, configVars, importVars, syntacticVars>>

\* close(shutdownChan), by the owner of the updater
GpuCloseShutdown ==
    /\ gpu.started
    /\ ~gpu.shutdownClosed
    /\ gpu' = [gpu EXCEPT !.shutdownClosed = TRUE]
    /\ UNCHANGED <<gpuTasks, clock, feeVars, blockVars, exportVars, baseFeeVars, configVars, importVars, syntacticVars>>

\* updatePrice takes the timer case: it sets the value and returns (wg.Done)
GpuTimerElapsed ==
    \E task \in gpuTasks :
        /\ task.at = "select"
        /\ "timer" \in selectReady(task, clock, gpu.shutdownClosed)
        /\ gpu' = [ApplySetter(gpu, task.setter, task.price) EXCEPT !.wg = @ - 1]
        /\ gpuTasks' = (gpuTasks \ {task}) \cup {[task EXCEPT !.at = "set"]}
        /\ UNCHANGED <<clock, feeVars, blockVars, exportVars, baseFeeVars, configVars, importVars, syntacticVars>>

\* updatePrice takes the shutdownChan case: it returns (wg.Done)
GpuShutdownSeen ==
    \E task \in gpuTasks :
        /\ task.at = "select"
        /\ "shutdown" \in selectReady(task, clock, gpu.shutdownClosed)
        /\ gpu' = [gpu EXCEPT !.wg = @ - 1]
        /\ gpuTasks' = (gpuTasks \ {task}) \cup {[task EXCEPT !.at = "cancelled"]}
        /\ UNCHANGED <<clock, feeVars, blockVars, exportVars, baseFeeVars, configVars, importVars, syntacticVars>>

(***************************************************************************)
(* blockValidator.SyntacticVerify                                          *)
(***************************************************************************)

AtomicGasLimit == 100000

\* an atomic transaction of a block: an export or an import
AtomicTx(kind, utx) == [kind |-> kind, utx |-> utx]

\* atomicTx.GasUsed(fixedFee), by the kind of the unsigned transaction
AtomicGasUsed(tx, fixedFee) ==
    IF tx.kind = "export" THEN GasUsed(tx.utx, fixedFee) ELSE ImportGasUsed(tx.utx, fixedFee)

\* the loop of SyntacticVerify over b.atomicTxs: the sum of GasUsed(fixedFee).
\* Neither GasUsed nor safemath.Add64 can overflow 64 bits at the sizes a
\* block holds, so the loop returns no error.
RECURSIVE TotalGasUsed(_, _)
TotalGasUsed(txs, fixedFee) ==
    IF txs = <<>> THEN 0
    ELSE AtomicGasUsed(Head(txs), fixedFee) + TotalGasUsed(Tail(txs), fixedFee)

\* the error of the first check that fails, "nil" when none does; a check is
\* a pair of its condition and what it returns
FirstFailure(checks) ==
    IF \E i \in 1..Len(checks) : checks[i][1]
    THEN LET first == CHOOSE i \in 1..Len(checks) :
                          checks[i][1] /\ \A j \in 1..(i - 1) : ~checks[j][1]
         IN  checks[first][2]
    ELSE "nil"

\* SyntacticVerify with the atomic transactions' gas taken without the fixed cost
SyntacticVerifyWithoutFixedFee(b, rules) ==
    LET h == b.header
        phase1 == rules.IsOdysseyPhase1
    IN  FirstFailure(<<
            <<b.isNil, "errInvalidBlock">>,
            <<~phase1 /\ b.defect = "extDataHashes", "unexpected extra data">>,
            <<b.isGenesis, "nil">>,
            <<b.defect = "extDataHash", "extra data hash mismatch">>,
            <<b.defect = "number", "invalid block number">>,
            <<b.defect = "difficulty", "invalid difficulty">>,
            <<b.defect = "nonce", "invalid block nonce">>,
            <<b.defect = "mixDigest", "invalid mix digest">>,
            <<(rules.IsCortina \/ phase1) /\ b.defect = "gasLimit", "unexpected gas limit">>,
            <<b.defect = "extra", "unexpected header ExtraData">>,
            <<b.defect = "version", "invalid version">>,
            <<b.defect = "txHash", "invalid txs hash">>,
            <<b.defect = "uncleHash", "invalid uncle hash">>,
            <<b.defect = "coinbase", "invalid coinbase">>,
            <<b.defect = "uncles", "errUnclesUnsupported">>,
            <<b.ethTxs = 0 /\ Len(b.atomicTxs) = 0, "errEmptyBlock">>,
            <<~phase1 /\ b.ethTxs > 0 /\ b.defect = "gasPrice", "gas price too low">>,
            <<b.defect = "timestamp", "block timestamp is too far in the future">>,
            <<phase1 /\ h.BaseFeeBitLen = Nil, "errNilBaseFeeOdysseyPhase1">>,
            <<phase1 /\ h.BaseFeeBitLen > 256, "too large base fee">>,
            <<phase1 /\ h.ExtDataGasUsed = Nil, "errNilExtDataGasUsedOdysseyPhase1">>,
            <<phase1 /\ h.ExtDataGasUsed > AtomicGasLimit, "too large extDataGasUsed">>,
            <<phase1 /\ h.ExtDataGasUsed # TotalGasUsed(b.atomicTxs, FALSE),
              "invalid extDataGasUsed">>,
            <<phase1 /\ h.BlockGasCostBitLen = Nil, "errNilBlockGasCostOdysseyPhase1">>,
            <<phase1 /\ h.BlockGasCostBitLen > 64, "too large blockGasCost">> >>)

\* SyntacticVerify: the checks in the order of the code. The hashes and the
\* fields one constant decides are carried by b.defect, the one of them that is
\* off ("none" when all are as required).
SyntacticVerify(b, rules) ==
    LET h == b.header
        phase1 == rules.IsOdysseyPhase1
        \* Charge the atomic tx fixed fee as of OdysseyPhase1
        fixedFee == rules.IsOdysseyPhase1
    IN  FirstFailure(<<
            <<b.isNil, "errInvalidBlock">>,
            <<~phase1 /\ b.defect = "extDataHashes", "unexpected extra data">>,
            <<b.isGenesis, "nil">>,
            <<b.defect = "extDataHash", "extra data hash mismatch">>,
            <<b.defect = "number", "invalid block number">>,
            <<b.defect = "difficulty", "invalid difficulty">>,
            <<b.defect = "nonce", "invalid block nonce">>,
            <<b.defect = "mixDigest", "invalid mix digest">>,
            <<(rules.IsCortina \/ phase1) /\ b.defect = "gasLimit", "unexpected gas limit">>,
            <<b.defect = "extra", "unexpected header ExtraData">>,
            <<b.defect = "version", "invalid version">>,
            <<b.defect = "txHash", "invalid txs hash">>,
            <<b.defect = "uncleHash", "invalid uncle hash">>,
            <<b.defect = "coinbase", "invalid coinbase">>,
            <<b.defect = "uncles", "errUnclesUnsupported">>,
            <<b.ethTxs = 0 /\ Len(b.atomicTxs) = 0, "errEmptyBlock">>,
            <<~phase1 /\ b.ethTxs > 0 /\ b.defect = "gasPrice", "gas price too low">>,
            <<b.defect = "timestamp", "block timestamp is too far in the future">>,
            <<phase1 /\ h.BaseFeeBitLen = Nil, "errNilBaseFeeOdysseyPhase1">>,
            <<phase1 /\ h.BaseFeeBitLen > 256, "too large base fee">>,
            <<phase1 /\ h.ExtDataGasUsed = Nil, "errNilExtDataGasUsedOdysseyPhase1">>,
            <<phase1 /\ h.ExtDataGasUsed > AtomicGasLimit, "too large extDataGasUsed">>,
            <<phase1 /\ h.ExtDataGasUsed # TotalGasUsed(b.atomicTxs, fixedFee),
              "invalid extDataGasUsed">>,
            <<phase1 /\ h.BlockGasCostBitLen = Nil, "errNilBlockGasCostOdysseyPhase1">>,
            <<phase1 /\ h.BlockGasCostBitLen > 64, "too large blockGasCost">> >>)

NoVerdict == [called |-> FALSE, err |-> "nil"]

\* a block of the given header fields and transactions
SyntacticBlock(isGenesis, defect, ethTxs, txs, baseFeeBitLen, extDataGasUsed, blockGasCostBitLen) ==
    [isNil |-> FALSE, isGenesis |-> isGenesis, defect |-> defect, ethTxs |-> ethTxs,
     atomicTxs |-> txs,
     header |-> [BaseFeeBitLen |-> baseFeeBitLen, ExtDataGasUsed |-> extDataGasUsed,
                 BlockGasCostBitLen |-> blockGasCostBitLen]]

\* b == nil
NilBlock == [SyntacticBlock(FALSE, "none", 0, <<>>, Nil, Nil, Nil) EXCEPT !.isNil = TRUE]

\* no block has been handed to SyntacticVerify
IdleSyntactic ==
    /\ svIn = [block |-> NilBlock, rules |-> [IsOdysseyPhase1 |-> FALSE, IsCortina |-> FALSE]]
    /\ svOut = NoVerdict

CallSyntacticVerify ==
    /\ ~svOut.called
    /\ svOut' = [called |-> TRUE, err |-> SyntacticVerify(svIn.block, svIn.rules)]
    /\ UNCHANGED svIn
    /\ UNCHANGED <<feeVars, blockVars, exportVars, baseFeeVars, configVars, importVars, updaterVars>>

InitTransfer ==
    /\ exTx \in {ExportTx("thisNetwork", "thisChain", "AChain", ins,
                          <<[AssetID |-> DIONEAssetID, Amount |-> 1]>>, MatchingCreds(ins)) :
                    ins \in SeqsUpTo2(TransferInputs)}
    /\ exState \in TransferStates
    /\ exRules = RulesAt(0, 0)
    /\ exReturn = NoReturn

InitVerify ==
    /\ \/ exTx \in FlowTxs /\ exRules \in {RulesAt(l, f) : l \in ForkLevels, f \in 0..MaxBaseFee}
       \/ exTx \in FlatFeeTxs /\ exRules \in {RulesAt(l, 0) : l \in {0, 1}}
       \/ exTx \in FormTxs /\ exRules \in {RulesAt(l, 1) : l \in ForkLevels}
    /\ exState = [balance |-> [a \in Addresses |-> 0],
                  balanceMC |-> [a \in Addresses |-> 0],
                  nonce |-> [a \in Addresses |-> 0]]
    /\ exReturn = NoReturn

InitFees ==
    /\ feeIn \in FeeInputs
    /\ feeOut = NoFees
    /\ IdleSyntactic
    /\ IdleBlocks
    /\ IdleExport
    /\ IdleBaseFee
    /\ IdleConfig
    /\ IdleImport
    /\ IdleUpdater

\* one call of CalculateFees on the chosen arguments
CallCalculateFees ==
    /\ ~feeOut.called
    /\ feeOut' = CalculateFees(feeIn.B, feeIn.P, feeIn.n, feeIn.rules)
    /\ UNCHANGED feeIn
    /\ UNCHANGED <<blockVars, exportVars, baseFeeVars, configVars, importVars, updaterVars, syntacticVars>>

NextFees == CallCalculateFees

SpecFees == InitFees /\ [][NextFees]_vars

IdleFees ==
    /\ feeIn = CHOOSE x \in FeeTestVectors : TRUE
    /\ feeOut = NoFees

InitLifecycle ==
    /\ InitBlocks
    /\ IdleFees
    /\ IdleSyntactic
    /\ IdleExport
    /\ IdleBaseFee
    /\ IdleConfig
    /\ IdleImport
    /\ IdleUpdater

SpecBlocks == InitLifecycle /\ [][NextBlocks]_vars

InitExportTransfer ==
    /\ InitTransfer
    /\ IdleFees
    /\ IdleSyntactic
    /\ IdleBlocks
    /\ IdleBaseFee
    /\ IdleConfig
    /\ IdleImport
    /\ IdleUpdater

NextExportTransfer == CallDELTAStateTransfer \/ CallDELTAStateTransferAgain

SpecExportTransfer == InitExportTransfer /\ [][NextExportTransfer]_vars

InitExportVerify ==
    /\ InitVerify
    /\ IdleFees
    /\ IdleSyntactic
    /\ IdleBlocks
    /\ IdleBaseFee
    /\ IdleConfig
    /\ IdleImport
    /\ IdleUpdater

NextExportVerify == CallSemanticVerify

SpecExportVerify == InitExportVerify /\ [][NextExportVerify]_vars

InitBaseFee ==
    /\ WindowCall \/ InitialCall \/ MalformedCall
    /\ bfOut = NoBaseFee
    /\ IdleFees
    /\ IdleSyntactic
    /\ IdleBlocks
    /\ IdleExport
    /\ IdleConfig
    /\ IdleImport
    /\ IdleUpdater

NextBaseFee == CallCalcBaseFee

SpecBaseFee == InitBaseFee /\ [][NextBaseFee]_vars

InitConfig ==
    /\ ForkOrderCall \/ TimestampCompatCall \/ BlockCompatCall \/ PresetCall
    /\ cfgOut = NoConfigCall
    /\ IdleFees
    /\ IdleSyntactic
    /\ IdleBlocks
    /\ IdleExport
    /\ IdleBaseFee
    /\ IdleImport
    /\ IdleUpdater

NextConfig ==
    \/ CallCheckConfigForkOrder
    \/ CallCheckCompatible
    \/ CheckCompatibleIterate
    \/ CallOdysseyRules

SpecConfig == InitConfig /\ [][NextConfig]_vars

InitImport ==
    /\ FlowImport \/ FormImport \/ BootstrappedImport
    /\ imReturn = NoImportReturn
    /\ IdleUpdater
    /\ IdleFees
    /\ IdleSyntactic
    /\ IdleBlocks
    /\ IdleExport
    /\ IdleBaseFee
    /\ IdleConfig

NextImport ==
    \/ CallImportVerify
    \/ CallImportSemanticVerify

SpecImport == InitImport /\ [][NextImport]_vars

InitUpdater ==
    /\ \E t1 \in ActivationTimes, t3 \in ActivationTimes, t4 \in ActivationTimes :
          gpu = NewUpdater([OdyPhase1BlockTimestamp |-> t1, OdyPhase3BlockTimestamp |-> t3,
                            OdyPhase4BlockTimestamp |-> t4])
    /\ gpuTasks = {}
    /\ clock \in 0..ClockEnd
    /\ IdleFees
    /\ IdleSyntactic
    /\ IdleBlocks
    /\ IdleExport
    /\ IdleBaseFee
    /\ IdleConfig
    /\ IdleImport

NextUpdater ==
    \/ GpuStart
    \/ GpuTick
    \/ GpuCloseShutdown
    \/ GpuTimerElapsed
    \/ GpuShutdownSeen

SpecUpdater == InitUpdater /\ [][NextUpdater]_vars

\* a goroutine whose select can proceed is scheduled
SpecUpdaterLive ==
    SpecUpdater /\ WF_vars(GpuTimerElapsed \/ GpuShutdownSeen)

\* the sum of the amounts of the entries of one asset
RECURSIVE SumAmounts(_, _)
SumAmounts(entries, asset) ==
    IF entries = <<>> THEN 0
    ELSE (IF Head(entries).AssetID = asset THEN Head(entries).Amount ELSE 0)
         + SumAmounts(Tail(entries), asset)

\* C8: a state transfer that succeeded found, for every input, the balance of
\* the input's address at least the input amount (the native asset's amount
\* times x2cRate) and the nonce of the address equal to the declared nonce; it
\* left the nonce of every address named by an input at the declared nonce + 1,
\* whatever the number of inputs naming it, and every other nonce alone; and a
\* transfer whose inputs declare two nonces for one address does not succeed.
C8_TransferContract ==
    exReturn.op = "DELTAStateTransfer" =>
        LET ins == exTx.Ins
            pre == exReturn.pre
            named(a) == \E i \in DOMAIN ins : ins[i].Address = a
        IN  /\ exReturn.err = "nil" =>
                /\ \A i \in DOMAIN ins :
                    /\ IF ins[i].AssetID = DIONEAssetID
                       THEN pre.balance[ins[i].Address] >= ins[i].Amount * x2cRate
                       ELSE pre.balanceMC[ins[i].Address] >= ins[i].Amount
                    /\ pre.nonce[ins[i].Address] = ins[i].Nonce
                    /\ exState.nonce[ins[i].Address] = ins[i].Nonce + 1
                /\ \A a \in Addresses : ~named(a) => exState.nonce[a] = pre.nonce[a]
            /\ (\E i, j \in DOMAIN ins : /\ ins[i].Address = ins[j].Address
                                         /\ ins[i].Nonce # ins[j].Nonce)
                  => exReturn.err # "nil"

\* a transfer of two inputs of one address has succeeded and advanced the nonce once
C8_Witness ==
    /\ exReturn.op = "DELTAStateTransfer"
    /\ exReturn.err = "nil"
    /\ Len(exTx.Ins) = 2
    /\ exTx.Ins[1].Address = exTx.Ins[2].Address
    /\ exTx.Ins[1].Amount > 0
    /\ exTx.Ins[2].Amount > 0
    /\ exState.nonce[exTx.Ins[1].Address] = exReturn.pre.nonce[exTx.Ins[1].Address] + 1

\* the fee an export transaction owes under the rules: the dynamic fee of the gas
\* used and the base fee once ApricotPhase3 is active, the flat fee before
OwedFee ==
    IF exRules.IsApricotPhase3
    THEN CalculateDynamicFee(GasUsed(exTx, exRules.IsApricotPhase5), exRules.baseFee)
    ELSE OdysseyAtomicTxFee

Balanced ==
    \A a \in Assets :
        SumAmounts(exTx.Ins, a) >=
            SumAmounts(exTx.ExportedOutputs, a) + (IF a = DIONEAssetID THEN OwedFee ELSE 0)

\* C9: SemanticVerify of an export transaction succeeds only if, for every asset,
\* the inputs sum to at least the exported outputs plus, for the native asset, the
\* fee owed; a well-formed transaction that does not balance fails the flow check.
C9_FlowCheck ==
    exReturn.op = "SemanticVerify" =>
        /\ exReturn.err = "nil" => Balanced
        /\ (Verify(exTx, exRules) = "nil" /\ ~Balanced) => exReturn.err = "flowCheckFailed"

\* a transaction paying exactly the dynamic fee has passed SemanticVerify
C9_Witness ==
    /\ exReturn.op = "SemanticVerify"
    /\ exReturn.err = "nil"
    /\ exRules.IsApricotPhase3
    /\ OwedFee > 0
    /\ SumAmounts(exTx.Ins, DIONEAssetID) =
           SumAmounts(exTx.ExportedOutputs, DIONEAssetID) + OwedFee

\* C2: the last-accepted marker of a block and the block's shared-memory
\* operations become durable together: every step that changes anything durable
\* (at any point of Accept, and across a failure or a restart) makes the marker
\* of one block durable and applies exactly that block's requests.
C2_DurableTogether ==
    [][ (diskLastAccepted' # diskLastAccepted \/ sharedMemory' # sharedMemory
            \/ smApplied' # smApplied)
        => \E b \in Blocks :
              /\ diskLastAccepted' = b
              /\ smApplied' = smApplied \cup {b}
              /\ sharedMemory' = applyRequests(sharedMemory, atomicTxs(b)) ]_vars

\* an Accept has returned nil: the marker is durable and the import it embeds
\* has consumed its shared-memory entry
C2_Witness ==
    /\ pc = "returned" /\ result.op = "Accept" /\ result.err = "nil"
    /\ diskLastAccepted = result.blk
    /\ result.blk \in smApplied
    /\ "u1" \notin sharedMemory

\* C3 as claimed: once a block's status is Accepted or Rejected, no operation
\* on the block changes it (a restart, which parses the blocks anew, aside).
C3_Terminal ==
    [][ Crash \/ \A b \in Blocks :
            status[b] \in {"Accepted", "Rejected"} => status'[b] = status[b] ]_vars

\* C4 as claimed: when Verify returns an error, the atomic backend holds no
\* verified atomic state for the block.
C4_NoStateAfterFailedVerify ==
    (result.op = "Verify" /\ result.err # "nil") => result.blk \notin verifiedRoots

\* C4 amended: when Verify returns an error, the atomic backend holds no verified
\* atomic state for the block, unless it held one before the call and the error
\* is that of syntacticVerify or verifyUTXOsPresent, which return before the
\* cleanup.
C4_NoStateFromFailedVerify ==
    (/\ result.op = "Verify"
     /\ result.err # "nil"
     /\ (~result.held \/ result.err \in {"failedBeforeState", "failedAfterState"}))
    => result.blk \notin verifiedRoots

\* InsertBlockManual failed after the atomic state was recorded, on a block that
\* held none before, and Verify has returned the error
C4_Witness ==
    /\ pc = "returned" /\ result.op = "Verify"
    /\ result.err = "failedAfterState" /\ ~result.held
    /\ result.blk \notin verifiedRoots

C6_NoDuplicates ==
    result.op = "Reject" => \A tx \in TxSet(result.blk) : mempool[tx] <= 1

\* the second Reject of a block has returned with every transaction re-issued
C6_Witness ==
    /\ pc = "returned" /\ result.op = "Reject" /\ result.rejected
    /\ result.blk = "B2" /\ result.failed = {}
    /\ \A tx \in TxSet(result.blk) : mempool[tx] = 1

\* the steps of Block.Accept in the order of the claim
AcceptOrder ==
    <<"status", "blockChainAccept", "putLastAccepted", "removeTxs",
      "getVerifiedAtomicState", "commitBatch", "atomicStateAccept">>

\* C7: an Accept that returns nil has marked the status, accepted the block into
\* the chain, put the id under the last-accepted key, removed the block's
\* transactions from the mempool, created the commit batch and applied the
\* verified atomic state, in this order; the block is then the last accepted
\* one and none of its transactions is in the mempool.
C7_AcceptSteps ==
    (result.op = "Accept" /\ result.err = "nil") =>
        /\ trace = AcceptOrder
        /\ status[result.blk] = "Accepted"
        /\ chainLastAccepted = result.blk
        /\ diskLastAccepted = result.blk
        /\ result.blk \in smApplied
        /\ \A tx \in TxSet(result.blk) : mempool[tx] = 0

\* Accept of the block with two transactions has returned nil
C7_Witness ==
    /\ pc = "returned" /\ result.op = "Accept" /\ result.err = "nil"
    /\ result.blk = "B2"
    /\ "u2" \in sharedMemory

\* the validator aggregates the two helpers took from the base fee and the priority fee
OrionFromBaseFee == calculateToGovernanceAndOrion(feeIn.B, feeIn.n, feeIn.rules)[2]
OrionFromPriorityFee == calculatePriorityFeeAndOrion(feeIn.P, feeIn.n, feeIn.rules)[2]

\* C1: the returned amounts conserve both totals: BaseFee + LpAllocation +
\* GovernanceAllocation + the validator aggregate taken from the base fee is the
\* base-fee total, and PriorityFee + the validator aggregate taken from the
\* priority fee is the priority-fee total.
C1_Conservation ==
    feeOut.called =>
        /\ feeOut.BaseFee + feeOut.LpAllocation + feeOut.GovernanceAllocation
              + OrionFromBaseFee = feeIn.B
        /\ feeOut.PriorityFee + OrionFromPriorityFee = feeIn.P

\* a call with validators in which both aggregates are positive and rounding occurred
C1_Witness ==
    /\ feeOut.called
    /\ feeIn.n > 1
    /\ OrionFromBaseFee > 0
    /\ OrionFromPriorityFee > 0
    /\ feeOut.LpAllocation > 0
    /\ feeOut.BaseFee >= 0
    /\ feeOut.GovernanceAllocation >= 0
    /\ feeOut.LpAllocation * feeIn.rules.AllocationDenominator
          # feeIn.rules.LpAllocation * feeIn.B

\* C10 as claimed: each of the five returned amounts is non-negative.
C10_NonNegative ==
    feeOut.called =>
        /\ feeOut.BaseFee >= 0
        /\ feeOut.PriorityFee >= 0
        /\ feeOut.LpAllocation >= 0
        /\ feeOut.GovernanceAllocation >= 0
        /\ feeOut.OrionFee >= 0

\* the part of the base-fee total that CalculateFees left to the validators
GivenFromBaseFee ==
    feeIn.B - feeOut.BaseFee - feeOut.LpAllocation - feeOut.GovernanceAllocation

\* floor(min(OrionAllocation * validatorCount, MaxOrionAllocation) * baseFeeTotal
\* / AllocationDenominator)
OrionCap ==
    LET uncapped == feeIn.rules.OrionAllocation * feeIn.n
        fraction == IF uncapped < feeIn.rules.MaxOrionAllocation
                    THEN uncapped ELSE feeIn.rules.MaxOrionAllocation
    IN  (fraction * feeIn.B) \div feeIn.rules.AllocationDenominator

\* C11: for every validator count greater than zero, the aggregate given to the
\* validators out of the base fee is at most the capped fraction of the base-fee
\* total, rounded down.
C11_AggregateWithinCap ==
    (feeOut.called /\ feeIn.n > 0) => GivenFromBaseFee <= OrionCap

\* a call in which the per-validator division left a remainder, so that the
\* aggregate given is positive and strictly below the cap
C11_Witness ==
    /\ feeOut.called
    /\ feeIn.n > 1
    /\ GivenFromBaseFee > 0
    /\ GivenFromBaseFee < OrionCap

C13_NoValidators ==
    (feeOut.called /\ feeIn.n = 0) =>
        /\ feeOut.GovernanceAllocation =
              (feeIn.B * feeIn.rules.GovernanceAllocation)
                  \div feeIn.rules.AllocationDenominator
        /\ feeOut.PriorityFee = feeIn.P
        /\ feeOut.OrionFee = 0

\* a call with no validator on totals and fractions that are all positive
C13_Witness ==
    /\ feeOut.called
    /\ feeIn.n = 0
    /\ feeIn.P > 0
    /\ feeIn.rules.PriorityFeeOrionAllocation > 0
    /\ feeIn.rules.OrionAllocation > 0
    /\ feeOut.GovernanceAllocation > 0

\* the last row of TestFeeCalculator
PrimaryNumbers ==
    [B |-> 1002577, P |-> 1000159, n |-> 5, rules |-> FeeRules(25, 50, 50, 5, 100, 100)]

PastInitialFee == ~initialBaseFee(bfIn.config, bfIn.parent)
WellFormedCall ==
    /\ PastInitialFee
    /\ bfIn.parent.Extra.len = OdyPhase3ExtraDataSize
    /\ bfIn.timestamp >= bfIn.parent.Time
\* the bounds of the phase active at the parent's time
ActiveMinBaseFee ==
    IF IsOdyPhase4(bfIn.config, bfIn.parent.Time) \/ IsOdyPhase5(bfIn.config, bfIn.parent.Time)
    THEN OdyPhase4MinBaseFee ELSE OdyPhase3MinBaseFee
ActiveMaxBaseFee ==
    IF IsOdyPhase4(bfIn.config, bfIn.parent.Time) THEN OdyPhase4MaxBaseFee
    ELSE OdyPhase3MaxBaseFee

Malformed ==
    \/ bfIn.timestamp < bfIn.parent.Time
    \/ bfIn.parent.Extra.len # OdyPhase3ExtraDataSize

\* C16 as stated: CalcBaseFee returns an error whenever the child timestamp is
\* smaller than the parent's or the parent's Extra is not exactly 80 bytes long,
\* and accepts a child timestamp equal to the parent's
C16_ErrorWheneverMalformed ==
    bfOut.called =>
        /\ Malformed => bfOut.err # "nil"
        /\ (bfIn.timestamp = bfIn.parent.Time
                /\ bfIn.parent.Extra.len = OdyPhase3ExtraDataSize) => bfOut.err = "nil"

\* C16 as the code has it: past the initial-fee case CalcBaseFee returns an
\* error exactly when the child timestamp is smaller than the parent's or the
\* parent's Extra is not exactly 80 bytes long, so an equal timestamp is
\* accepted; in the initial-fee case it returns the initial window and base
\* fee without an error, whatever the Extra and the timestamps
C16_ErrorPastInitialFee ==
    bfOut.called =>
        /\ PastInitialFee => (bfOut.err # "nil" <=> Malformed)
        /\ ~PastInitialFee => bfOut = InitialReturn

\* a child earlier than its parent refused past the initial-fee case
C16_Witness ==
    /\ bfOut.called /\ PastInitialFee
    /\ bfIn.parent.Extra.len = OdyPhase3ExtraDataSize
    /\ bfIn.timestamp < bfIn.parent.Time
    /\ bfOut.err = "errTimestampBeforeParent"

\* the base fee of the call in hand had the parent used gasUsed
BaseFeeWithGasUsed(gasUsed) ==
    CalcBaseFee(bfIn.config, [bfIn.parent EXCEPT !.GasUsed = gasUsed], bfIn.timestamp).baseFee
\* the total of the window returned and the target of the active phase
ReturnedTotalGas == sumLongWindow(bfOut.window, rollupWindow)
ActiveTargetGas ==
    IF IsOdyPhase5(bfIn.config, bfIn.parent.Time) THEN OdyPhase5TargetGas ELSE OdyPhase3TargetGas

Misordered(c, fields) ==
    \E i \in DOMAIN fields, j \in DOMAIN fields :
        /\ i < j
        /\ c[fields[i]] # Nil /\ c[fields[j]] # Nil
        /\ c[fields[j]] < c[fields[i]]
\* a fork keyed by height is set to a height other than genesis
NonGenesisHeight(c) == \E f \in Range(BlockFields) : c[f] # Nil /\ c[f] # 0

\* C18: CheckConfigForkOrder returns an error for every configuration in which
\* a later upgrade has a smaller activation timestamp or height than an earlier
\* one, and for every configuration with a fork set to a non-zero height
C18_RejectsMisorderedForks ==
    cfgOut.op = "CheckConfigForkOrder" =>
        /\ Misordered(cfgIn.stored, TimestampFields) => cfgOut.err # "nil"
        /\ Misordered(cfgIn.stored, BlockFields) => cfgOut.err # "nil"
        /\ NonGenesisHeight(cfgIn.stored) => cfgOut.err # "nil"

\* timestamps out of order, with an upgrade not set between the two, refused
C18_Witness ==
    /\ cfgOut.op = "CheckConfigForkOrder"
    /\ ~NonGenesisHeight(cfgIn.stored)
    /\ cfgIn.stored.OdyPhase2BlockTimestamp = Nil
    /\ cfgIn.stored.OdyPhase3BlockTimestamp < cfgIn.stored.OdyPhase1BlockTimestamp
    /\ Misordered(cfgIn.stored, TimestampFields)
    /\ cfgOut.err = "errForkNotEnabled"

\* the head an upgrade's activation point is compared with
HeadFor(f) == IF f \in Range(BlockFields) THEN cfgIn.height ELSE cfgIn.time
\* the two configurations give different activation points for an upgrade that
\* is active at the head under at least one of them
Disagree(f) ==
    /\ cfgIn.stored[f] # cfgIn.new[f]
    /\ \/ cfgIn.stored[f] # Nil /\ cfgIn.stored[f] <= HeadFor(f)
       \/ cfgIn.new[f] # Nil /\ cfgIn.new[f] <= HeadFor(f)
Disagreements == {f \in Range(BlockFields) \cup Range(TimestampFields) : Disagree(f)}
\* the smaller of the activation points that are set
SmallerPoint(f) ==
    IF cfgIn.stored[f] = Nil THEN cfgIn.new[f]
    ELSE IF cfgIn.new[f] = Nil \/ cfgIn.stored[f] < cfgIn.new[f] THEN cfgIn.stored[f]
    ELSE cfgIn.new[f]
\* the error names the two activation points of f and rewinds to just before
\* the smaller one
ErrorFor(err, f) ==
    LET target == IF SmallerPoint(f) > 0 THEN SmallerPoint(f) - 1 ELSE 0
    IN  IF f \in Range(BlockFields)
        THEN /\ err.StoredBlock = cfgIn.stored[f] /\ err.NewBlock = cfgIn.new[f]
             /\ err.RewindToBlock = target
        ELSE /\ err.StoredTime = cfgIn.stored[f] /\ err.NewTime = cfgIn.new[f]
             /\ err.RewindToTime = target

\* C19: CheckCompatible returns nil when no upgrade active at the head has
\* different activation points in the two configurations, and otherwise an
\* error for the earliest such upgrade, carrying its two activation points and
\* the rewind target one less than the smaller one (0 if that is 0)
C19_EarliestDisagreement ==
    (cfgOut.op = "CheckCompatible" /\ cfgOut.pc = "returned") =>
        IF Disagreements = {} THEN cfgOut.lasterr = NoCompatError
        ELSE /\ cfgOut.lasterr # NoCompatError
             /\ \E f \in Disagreements :
                    /\ \A g \in Disagreements :
                          (g \in Range(BlockFields) <=> f \in Range(BlockFields))
                              => SmallerPoint(f) <= SmallerPoint(g)
                    /\ ErrorFor(cfgOut.lasterr, f)

\* an entry a transaction of the block consumes is absent from shared memory
MissingUTXOs(b) ==
    \E i \in 1..Len(atomicTxs(b)) :
        ~(AtomicOps(atomicTxs(b)[i]).RemoveRequests \subseteq sharedMemory)

\* C20 as stated: on a bootstrapped VM, Verify of a block that is not a bonus
\* block and consumes an absent shared-memory entry fails with errMissingUTXOs
\* and records no state for the block
C20_MissingUTXOsFailVerify ==
    [][\A b \in Blocks :
          (/\ pc = "idle" /\ result'.op = "Verify" /\ result'.blk = b
           /\ bootstrapped /\ ~IsBonus(b) /\ MissingUTXOs(b))
          => /\ result'.err = "errMissingUTXOs"
             /\ verifiedRoots' = verifiedRoots]_vars

\* C20 as the code has it: on a bootstrapped VM, Verify of a block that passes
\* syntactic verification, is not a bonus block and consumes an absent
\* shared-memory entry fails with errMissingUTXOs before InsertBlockManual runs,
\* so no state is recorded for the block; a block that fails syntactic
\* verification fails with that error instead; the check finds nothing missing
\* on a bonus block or while the VM is not bootstrapped
C20_MissingUTXOsFailWellFormed ==
    [][\A b \in Blocks :
          (pc = "idle" /\ result'.op = "Verify" /\ result'.blk = b)
          => /\ (syntacticVerify(b) /\ bootstrapped /\ ~IsBonus(b) /\ MissingUTXOs(b))
                  => /\ result'.err = "errMissingUTXOs"
                     /\ verifiedRoots' = verifiedRoots
             /\ (~syntacticVerify(b) /\ bootstrapped /\ ~IsBonus(b) /\ MissingUTXOs(b))
                  => /\ result'.err = "syntactic"
                     /\ verifiedRoots' = verifiedRoots
             /\ (IsBonus(b) \/ ~bootstrapped) => result'.err # "errMissingUTXOs"]_vars

\* Verify has returned errMissingUTXOs for a well-formed block whose import
\* consumes an entry an accepted block has already removed
C20_Witness ==
    /\ pc = "returned" /\ result.op = "Verify" /\ result.err = "errMissingUTXOs"
    /\ bootstrapped /\ ~IsBonus(result.blk)
    /\ result.blk \in wellFormed
    /\ MissingUTXOs(result.blk)
    /\ "u1" \notin sharedMemory
    /\ smApplied # {}

\* the place of an output in the order of EVMOutput.Compare
OutputKey(out) == 2 * AddrRank(out.Address) + AssetRank(out.AssetID)
\* an imported input comes after one it should precede, or names the same output
InputsMisordered(ins) ==
    \E i, j \in 1..Len(ins) : i < j /\ UTXORank(ins[i].UTXOID) >= UTXORank(ins[j].UTXOID)
OutputsUnsorted(outs) ==
    \E i, j \in 1..Len(outs) : i < j /\ OutputKey(outs[i]) > OutputKey(outs[j])
OutputsRepeated(outs) ==
    \E i, j \in 1..Len(outs) : i < j /\ OutputKey(outs[i]) = OutputKey(outs[j])

\* C21: Verify (and SemanticVerify, which starts with it) rejects an import
\* whose inputs are not sorted or name an output twice under every rule set,
\* one whose outputs are not sorted and unique from OdyPhase2 on, and one whose
\* outputs are not sorted from OdyPhase1 on; an import that is otherwise
\* well-formed and whose order is the one its rules ask for passes Verify
C21_ImportOrderEnforced ==
    imReturn.op # "none" =>
        /\ InputsMisordered(imTx.ImportedInputs) => imReturn.err # "nil"
        /\ (imRules.IsOdyPhase2 /\ (OutputsUnsorted(imTx.Outs) \/ OutputsRepeated(imTx.Outs)))
               => imReturn.err # "nil"
        /\ (imRules.IsOdyPhase1 /\ OutputsUnsorted(imTx.Outs)) => imReturn.err # "nil"
        /\ (/\ imReturn.op = "Verify"
            /\ importVerifyForm(imTx, imRules) = "nil"
            /\ ~InputsMisordered(imTx.ImportedInputs)
            /\ imRules.IsOdyPhase1 => ~OutputsUnsorted(imTx.Outs)
            /\ imRules.IsOdyPhase2 => ~OutputsRepeated(imTx.Outs))
               => imReturn.err = "nil"

\* Verify has refused, under OdyPhase2, an import that credits the same account
\* and asset twice and is in order otherwise
C21_Witness ==
    /\ imReturn.op = "Verify"
    /\ imReturn.err = "errOutputsNotSortedUnique"
    /\ imRules.IsOdyPhase2
    /\ OutputsRepeated(imTx.Outs)
    /\ ~OutputsUnsorted(imTx.Outs)
    /\ ~InputsMisordered(imTx.ImportedInputs)

\* the fee an import owes on the native asset under its rules
ImportFeeOwed ==
    IF imRules.IsOdyPhase3
    THEN CalculateDynamicFee(ImportGasUsed(imTx, imRules.IsOdyPhase5), imRules.baseFee)
    ELSE IF imRules.IsOdyPhase2 THEN OdysseyAtomicTxFee
    ELSE 0
\* the imported amounts of an asset cover the credited ones and a charge
ImportCovers(asset, charge) ==
    SumAmounts(imTx.ImportedInputs, asset) >= SumAmounts(imTx.Outs, asset) + charge
ImportBalanced ==
    \A asset \in Assets :
        ImportCovers(asset, IF asset = DIONEAssetID THEN ImportFeeOwed ELSE 0)

\* C22: SemanticVerify of an import that passes Verify fails the flow check
\* exactly when, for some asset, the imported amounts are less than the credited
\* amounts plus, on the native asset, the fee: nothing before OdyPhase2, the flat
\* atomic fee in OdyPhase2, the dynamic fee of gas used and base fee from
\* OdyPhase3 on
C22_ImportFlowCheck ==
    (imReturn.op = "SemanticVerify" /\ ImportVerify(imTx, imRules) = "nil")
        => (imReturn.err = "flowCheckFailed" <=> ~ImportBalanced)

\* SemanticVerify has failed the flow check of an import under OdyPhase2 whose
\* inputs cover its outputs on every asset and fall short of the flat fee only
C22_Witness ==
    /\ imReturn.op = "SemanticVerify"
    /\ imReturn.err = "flowCheckFailed"
    /\ imRules.IsOdyPhase2 /\ ~imRules.IsOdyPhase3
    /\ \A asset \in Assets : ImportCovers(asset, 0)
    /\ SumAmounts(imTx.Outs, DIONEAssetID) > 0
    /\ ~ImportCovers(DIONEAssetID, OdysseyAtomicTxFee)

\* the errors SemanticVerify returns from Verify
ExportVerifyErrors ==
    {"errNoExportOutputs", "errWrongNetworkID", "errWrongBlockchainID", "errWrongChainID",
     "errNoValueInput", "errNoValueOutput", "errExportNonDIONEInputBanff",
     "errExportNonDIONEOutputBanff", "errOutputsNotSorted", "errInputsNotSortedUnique"}
\* the place of an input in the order of DELTAInput.Compare
InputKey(in) == 2 * AddrRank(in.Address) + AssetRank(in.AssetID)
\* an input comes after one it should precede, or repeats its address and asset
ExportInputsMisordered(ins) ==
    \E i, j \in 1..Len(ins) : i < j /\ InputKey(ins[i]) >= InputKey(ins[j])
\* an exported output comes after one it should precede, by asset and then amount
ExportOutputsUnsorted(outs) ==
    \E i, j \in 1..Len(outs) :
        /\ i < j
        /\ \/ AssetRank(outs[i].AssetID) > AssetRank(outs[j].AssetID)
           \/ outs[i].AssetID = outs[j].AssetID /\ outs[i].Amount > outs[j].Amount

\* C23: Verify of an export (as SemanticVerify runs it first) refuses inputs that
\* are not sorted and unique once ApricotPhase1 is active and never refuses an
\* export for the order of its inputs before; it refuses unsorted exported
\* outputs under every rule set, and for the order of the outputs only then
C23_ExportOrderEnforced ==
    exReturn.op = "SemanticVerify" =>
        /\ (exRules.IsApricotPhase1 /\ ExportInputsMisordered(exTx.Ins))
              => exReturn.err \in ExportVerifyErrors
        /\ ExportOutputsUnsorted(exTx.ExportedOutputs) => exReturn.err \in ExportVerifyErrors
        /\ exReturn.err = "errInputsNotSortedUnique"
              => (exRules.IsApricotPhase1 /\ ExportInputsMisordered(exTx.Ins))
        /\ exReturn.err = "errOutputsNotSorted" => ExportOutputsUnsorted(exTx.ExportedOutputs)
        /\ (/\ ~exRules.IsApricotPhase1
            /\ Verify([exTx EXCEPT !.Ins = <<>>], exRules) = "nil"
            /\ \A i \in 1..Len(exTx.Ins) : exTx.Ins[i].Amount # 0)
              => exReturn.err \notin ExportVerifyErrors

\* before ApricotPhase1 an export that names the same address and asset twice
\* has passed Verify and the rest of SemanticVerify
C23_Witness ==
    /\ exReturn.op = "SemanticVerify"
    /\ exReturn.err = "nil"
    /\ ~exRules.IsApricotPhase1
    /\ Len(exTx.Ins) = 2
    /\ InputKey(exTx.Ins[1]) >= InputKey(exTx.Ins[2])

\* C24: once shutdownChan is closed, every goroutine of the updater returns and
\* the wait group completes, however far ahead the next activation time lies
C24_ShutdownTerminates ==
    gpu.shutdownClosed ~> (gpu.wg = 0 /\ \A task \in gpuTasks : task.at # "select")

\* the wait group has completed after the shutdown although an activation time
\* an hour ahead was being waited for
C24_Witness ==
    /\ gpu.shutdownClosed
    /\ gpu.wg = 0
    /\ \E task \in gpuTasks : task.at = "cancelled" /\ task.deadline = FarFuture

\* C25 as stated: Reject or Accept of a block that holds no verified atomic
\* state returns an error and leaves the block's status, the mempool and the
\* last-accepted marker as they were. Reject is one step. Accept writes the
\* status in its first step (line 79) and no later step of it writes the status
\* again, so the call leaves the status as it was only if that step does
C25_FailedCallLeavesState ==
    [][/\ \A b \in Blocks :
            (pc = "idle" /\ result'.op = "Reject" /\ result'.blk = b /\ b \notin verifiedRoots)
            => /\ result'.err # "nil"
               /\ status' = status
               /\ mempool' = mempool
               /\ chainLastAccepted' = chainLastAccepted
               /\ diskLastAccepted' = diskLastAccepted
       /\ (pc = "idle" /\ pc' = "blockChainAccept" /\ cur' \notin verifiedRoots)
            => status' = status
       /\ (pc # "idle" /\ pc' = "returned" /\ result'.op = "Accept" /\ cur \notin verifiedRoots)
            => result'.err # "nil"]_vars

\* the seconds between the parent and the child of the call in hand
Roll == bfIn.timestamp - bfIn.parent.Time
\* counter i (from 0) of a window
Slot(window, i) == window.longs[i + 1]
Slots == 0..(rollupWindow - 1)

\* C26: rolling the parent's window of 10 counters by r gives a window of the
\* same byte length whose counter i is the parent's counter i + r when
\* i + r < 10 and zero otherwise, so it is all zeros for r >= 10; the window
\* CalcBaseFee returns is this one in every counter but the one at 9 - r
C26_RollShiftsAndZeroFills ==
    (bfOut.called /\ WellFormedCall) =>
        LET rolled == rollLongWindow(bfIn.parent.Extra, Roll)
        IN  /\ rolled.err = "nil"
            /\ rolled.window.len = bfIn.parent.Extra.len
            /\ Len(rolled.window.longs) = rollupWindow
            /\ \A i \in Slots :
                  Slot(rolled.window, i) =
                      IF i + Roll < rollupWindow THEN Slot(bfIn.parent.Extra, i + Roll) ELSE 0
            /\ Roll >= rollupWindow => rolled.window.longs = ZeroLongs(rollupWindow)
            /\ bfOut.window.len = bfIn.parent.Extra.len
            /\ \A i \in Slots \ {rollupWindow - 1 - Roll} :
                  Slot(bfOut.window, i) = Slot(rolled.window, i)

\* a window with a different count in every slot has been rolled by two seconds
C26_Witness ==
    /\ bfOut.called /\ WellFormedCall
    /\ Roll = 2
    /\ \A i \in Slots : Slot(bfIn.parent.Extra, i) = i + 1
    /\ Slot(bfOut.window, 0) = 3
    /\ Slot(bfOut.window, 6) = 9
    /\ Slot(bfOut.window, 8) = 0 /\ Slot(bfOut.window, 9) = 0

\* counter i of the parent's window after the roll of the call in hand
RolledSlot(i) == IF i + Roll < rollupWindow THEN Slot(bfIn.parent.Extra, i + Roll) ELSE 0
\* a sum of counters held at the uint64 maximum
Saturated(x) == IF x > MaxUint64 THEN MaxUint64 ELSE x
RECURSIVE PlainSum(_, _)
PlainSum(longs, n) == IF n = 0 THEN 0 ELSE longs[n] + PlainSum(longs, n - 1)
\* the gas of the parent block: the gas used, from OdyPhase4 on the gas of the
\* atomic transactions when the header carries it, and before OdyPhase5 the
\* block gas cost (fixed in OdyPhase3, computed in OdyPhase4)
ParentGas ==
    LET p == bfIn.parent
        op4 == IsOdyPhase4(bfIn.config, p.Time)
        op5 == IsOdyPhase5(bfIn.config, p.Time)
        ext == IF (op4 \/ op5) /\ p.ExtDataGasUsed # Nil THEN p.ExtDataGasUsed ELSE 0
        cost == IF op5 THEN 0
                ELSE IF op4
                THEN calcBlockGasCost(OdyPhase4TargetBlockRate, OdyPhase4MinBlockGasCost,
                                      OdyPhase4MaxBlockGasCost, OdyPhase4BlockGasCostStep,
                                      p.BlockGasCost, p.Time, bfIn.timestamp)
                ELSE OdyPhase3BlockGasFee
    IN  Saturated(Saturated(p.GasUsed + ext) + cost)

\* C27: for a roll below 10 the window CalcBaseFee returns is the rolled window
\* with the parent's gas added to the counter at 9 - roll, every addition held
\* at the uint64 maximum, and every other counter as rolled; for a roll of 10
\* or more it is the rolled window; the sum of the window is held at the
\* maximum as well
C27_GasAddedAtSlot ==
    (bfOut.called /\ WellFormedCall) =>
        /\ \A i \in Slots :
              Slot(bfOut.window, i) =
                  IF Roll < rollupWindow /\ i = rollupWindow - 1 - Roll
                  THEN Saturated(RolledSlot(i) + ParentGas)
                  ELSE RolledSlot(i)
        /\ sumLongWindow(bfOut.window, rollupWindow)
              = Saturated(PlainSum(bfOut.window.longs, rollupWindow))

\* the parent's gas has filled the counter at 9 - roll, which held gas already,
\* up to the maximum
C27_Witness ==
    /\ bfOut.called /\ WellFormedCall
    /\ Roll = 1
    /\ RolledSlot(rollupWindow - 2) > 0
    /\ ParentGas + RolledSlot(rollupWindow - 2) > MaxUint64
    /\ Slot(bfOut.window, rollupWindow - 2) = MaxUint64
    /\ PlainSum(bfOut.window.longs, rollupWindow) > MaxUint64

\* the change denominator of the phase active at the parent's time
ActiveChangeDenominator ==
    IF IsOdyPhase5(bfIn.config, bfIn.parent.Time) THEN OdyPhase5BaseFeeChangeDenominator
    ELSE OdyPhase4BaseFeeChangeDenominator
\* a base fee held within the bounds of the active phase
Clamped(fee) ==
    IF fee < ActiveMinBaseFee THEN ActiveMinBaseFee
    ELSE IF ~IsOdyPhase5(bfIn.config, bfIn.parent.Time) /\ fee > ActiveMaxBaseFee
    THEN ActiveMaxBaseFee
    ELSE fee
\* the change of the base fee for a distance gasDelta of the total from the
\* target: at least one
FeeChange(gasDelta) ==
    LET change == ((bfIn.parent.BaseFee * gasDelta) \div ActiveTargetGas)
                      \div ActiveChangeDenominator
    IN  IF change < 1 THEN 1 ELSE change

\* C28: with the total of the returned window equal to the target CalcBaseFee
\* returns the parent's base fee as it is; with the total above the target it
\* returns, held within the bounds, the parent's base fee plus
\* max(1, floor(floor(parentBaseFee * (total - target) / target) / denominator))
C28_IncreaseAboveTarget ==
    (bfOut.called /\ WellFormedCall) =>
        /\ ReturnedTotalGas = ActiveTargetGas => bfOut.baseFee = bfIn.parent.BaseFee
        /\ ReturnedTotalGas > ActiveTargetGas =>
               bfOut.baseFee
                   = Clamped(bfIn.parent.BaseFee + FeeChange(ReturnedTotalGas - ActiveTargetGas))

\* the total is above the target and the base fee has grown by more than one
\* without reaching the upper bound
C28_Witness ==
    /\ bfOut.called /\ WellFormedCall
    /\ ReturnedTotalGas > ActiveTargetGas
    /\ FeeChange(ReturnedTotalGas - ActiveTargetGas) > 1
    /\ bfOut.baseFee = bfIn.parent.BaseFee + FeeChange(ReturnedTotalGas - ActiveTargetGas)
    /\ bfOut.baseFee < ActiveMaxBaseFee

\* C29: with the total of the returned window below the target CalcBaseFee
\* returns, held within the bounds, the parent's base fee minus
\* max(1, floor(floor(parentBaseFee * (target - total) / target) / denominator)),
\* that decrease multiplied by floor(roll / 10) when the roll is greater than 10
C29_DecreaseBelowTarget ==
    (bfOut.called /\ WellFormedCall /\ ReturnedTotalGas < ActiveTargetGas) =>
        bfOut.baseFee
            = Clamped(bfIn.parent.BaseFee
                          - FeeChange(ActiveTargetGas - ReturnedTotalGas)
                                * (IF Roll > rollupWindow THEN Roll \div rollupWindow ELSE 1))

\* a roll of more than twice the window has doubled the decrease and the base
\* fee stays above the lower bound
C29_Witness ==
    /\ bfOut.called /\ WellFormedCall
    /\ ReturnedTotalGas < ActiveTargetGas
    /\ Roll \div rollupWindow = 2
    /\ bfOut.baseFee = bfIn.parent.BaseFee - 2 * FeeChange(ActiveTargetGas - ReturnedTotalGas)
    /\ bfOut.baseFee > ActiveMinBaseFee

\* the steps calcBlockGasCost is given
BlockGasCostSteps == {OdyPhase4BlockGasCostStep, OdyPhase5BlockGasCostStep}
\* the seconds from the parent to the child, none when the child is earlier
Elapsed == IF bfIn.timestamp >= bfIn.parent.Time THEN bfIn.timestamp - bfIn.parent.Time ELSE 0
\* the block gas cost required of the child of the call in hand
RequiredBlockGasCost(step) ==
    calcBlockGasCost(OdyPhase4TargetBlockRate, OdyPhase4MinBlockGasCost, OdyPhase4MaxBlockGasCost,
                     step, bfIn.parent.BlockGasCost, bfIn.parent.Time, bfIn.timestamp)
\* the parent's cost moved one step per second away from the target rate
SteppedBlockGasCost(step) ==
    IF Elapsed < OdyPhase4TargetBlockRate
    THEN bfIn.parent.BlockGasCost + step * (OdyPhase4TargetBlockRate - Elapsed)
    ELSE bfIn.parent.BlockGasCost - step * (Elapsed - OdyPhase4TargetBlockRate)
WithinCostBounds(cost) ==
    IF cost < OdyPhase4MinBlockGasCost THEN OdyPhase4MinBlockGasCost
    ELSE IF cost > OdyPhase4MaxBlockGasCost THEN OdyPhase4MaxBlockGasCost
    ELSE cost

\* C30: calcBlockGasCost returns the minimum for a parent without a block gas
\* cost; otherwise, with the elapsed time max(0, current - parent), the
\* parent's cost plus step * (target - elapsed) when elapsed < target and minus
\* step * (elapsed - target) otherwise, held within [min, max]; the result is
\* always within [min, max]
C30_BlockGasCostWithinBounds ==
    bfOut.called =>
        \A step \in BlockGasCostSteps :
            /\ bfIn.parent.BlockGasCost = Nil
                   => RequiredBlockGasCost(step) = OdyPhase4MinBlockGasCost
            /\ bfIn.parent.BlockGasCost # Nil
                   => RequiredBlockGasCost(step) = WithinCostBounds(SteppedBlockGasCost(step))
            /\ RequiredBlockGasCost(step) >= OdyPhase4MinBlockGasCost
            /\ RequiredBlockGasCost(step) <= OdyPhase4MaxBlockGasCost

\* an OdyPhase4 parent with a block gas cost, a child later than the target
\* rate: the cost has gone down without reaching the minimum and is part of the
\* gas added to the window
C30_Witness ==
    /\ bfOut.called /\ WellFormedCall
    /\ IsOdyPhase4(bfIn.config, bfIn.parent.Time) /\ ~IsOdyPhase5(bfIn.config, bfIn.parent.Time)
    /\ bfIn.parent.BlockGasCost # Nil
    /\ Elapsed > OdyPhase4TargetBlockRate /\ Elapsed < rollupWindow
    /\ RequiredBlockGasCost(OdyPhase4BlockGasCostStep) > OdyPhase4MinBlockGasCost
    /\ RequiredBlockGasCost(OdyPhase4BlockGasCostStep) < bfIn.parent.BlockGasCost
    /\ SteppedBlockGasCost(OdyPhase5BlockGasCostStep) < OdyPhase4MinBlockGasCost
    /\ Slot(bfOut.window, rollupWindow - 1 - Roll)
           = RolledSlot(rollupWindow - 1 - Roll) + bfIn.parent.GasUsed
                 + RequiredBlockGasCost(OdyPhase4BlockGasCostStep)

(***************************************************************************)
(* A chain of headers, each built from its parent with CalcBaseFee         *)
(***************************************************************************)
\* the headers of a chain are numbered 0..MaxChainLength
MaxChainLength == 3
\* configurations with the activation times in order
ChainConfigs == {StagedForks, ForkTimes(0, 0, 0), ForkTimes(1, 1, 3)}
ChainRolls == {0, 1, 11}
ChainGas == {0, 400, MaxUint64}
GenesisHeader == Header(0, 0, NilBytes, 0, Nil, Nil, Nil)

\* the header of the child built at bfIn.timestamp: from OdyPhase3 on its Extra
\* and BaseFee are the values CalcBaseFee returned for it, from OdyPhase4 on it
\* carries ExtDataGasUsed and the block gas cost required of it
ChildHeader(gasUsed, extDataGasUsed) ==
    LET config == bfIn.config
        parent == bfIn.parent
        time == bfIn.timestamp
        step == IF IsOdyPhase5(config, time) THEN OdyPhase5BlockGasCostStep
                ELSE OdyPhase4BlockGasCostStep
    IN  Header(time, parent.Number + 1,
               IF IsOdyPhase3(config, time) THEN bfOut.window ELSE NilBytes,
               gasUsed,
               IF IsOdyPhase4(config, time) THEN extDataGasUsed ELSE Nil,
               IF IsOdyPhase4(config, time)
               THEN calcBlockGasCost(OdyPhase4TargetBlockRate, OdyPhase4MinBlockGasCost,
                                     OdyPhase4MaxBlockGasCost, step, parent.BlockGasCost,
                                     parent.Time, time)
               ELSE Nil,
               IF IsOdyPhase3(config, time) THEN bfOut.baseFee ELSE Nil)

\* the child becomes the tip of the chain and the time of the next child is chosen
AppendChild ==
    /\ bfOut.called /\ bfOut.err = "nil"
    /\ bfIn.parent.Number < MaxChainLength
    /\ \E gasUsed \in ChainGas, extDataGasUsed \in {0, 20}, roll \in ChainRolls :
           bfIn' = [config |-> bfIn.config,
                    parent |-> ChildHeader(gasUsed, extDataGasUsed),
                    timestamp |-> bfIn.timestamp + roll]
    /\ bfOut' = NoBaseFee
    /\ UNCHANGED <<feeVars, blockVars, exportVars, configVars, importVars, updaterVars, syntacticVars>>

InitChain ==
    /\ \E config \in ChainConfigs, timestamp \in ChainRolls :
           bfIn = [config |-> config, parent |-> GenesisHeader, timestamp |-> timestamp]
    /\ bfOut = NoBaseFee
    /\ IdleFees
    /\ IdleSyntactic
    /\ IdleBlocks
    /\ IdleExport
    /\ IdleConfig
    /\ IdleImport
    /\ IdleUpdater

NextChain == CallCalcBaseFee \/ AppendChild

SpecChain == InitChain /\ [][NextChain]_vars

\* the bounds of the phase a base fee was computed under: the initial base fee
\* is computed under OdyPhase3, every other one under the phase of the parent
WithinPhaseBounds(fee) ==
    IF initialBaseFee(bfIn.config, bfIn.parent)
    THEN fee >= OdyPhase3MinBaseFee /\ fee <= OdyPhase3MaxBaseFee
    ELSE /\ fee >= ActiveMinBaseFee
         /\ ~IsOdyPhase5(bfIn.config, bfIn.parent.Time) => fee <= ActiveMaxBaseFee

\* C31: along a chain that starts at the genesis block, with the activation
\* times in order, CalcBaseFee never fails, every window it returns is 80
\* bytes long and every base fee it returns lies within the bounds of the
\* phase it was computed under; so does the tip of the chain once OdyPhase3
\* is active at its time
C31_ChainWithinBounds ==
    /\ bfOut.called =>
           /\ bfOut.err = "nil"
           /\ bfOut.window.len = OdyPhase3ExtraDataSize
           /\ Len(bfOut.window.longs) = rollupWindow
           /\ WithinPhaseBounds(bfOut.baseFee)
    /\ (bfIn.parent.Number > 0 /\ IsOdyPhase3(bfIn.config, bfIn.parent.Time)) =>
           /\ bfIn.parent.Extra.len = OdyPhase3ExtraDataSize
           /\ bfIn.parent.BaseFee >= OdyPhase4MinBaseFee

\* the child of the last header of a chain that crossed into OdyPhase5: its
\* base fee is above the OdyPhase3 maximum and its window holds gas
C31_Witness ==
    /\ bfOut.called
    /\ bfIn.parent.Number = MaxChainLength
    /\ bfIn.config = StagedForks
    /\ IsOdyPhase5(bfIn.config, bfIn.parent.Time)
    /\ bfOut.baseFee > OdyPhase3MaxBaseFee
    /\ bfOut.window.len = OdyPhase3ExtraDataSize
    /\ sumLongWindow(bfOut.window, rollupWindow) > 0

\* C32: a DELTAStateTransfer that returns an error (insufficient funds or an
\* invalid nonce) leaves every balance and every nonce as it was before the call
C32_FailedTransferLeavesState ==
    (exReturn.op = "DELTAStateTransfer" /\ exReturn.err # "nil") => exState = exReturn.pre

\* C33: the state transfer of a transaction with at least one input, run again
\* on the state its successful run left, returns an error whatever the balances
C33_SecondTransferFails ==
    (exReturn.op = "DELTAStateTransferAgain" /\ Len(exTx.Ins) >= 1) => exReturn.err # "nil"

\* the second run had the funds for every input and was refused for the nonce
C33_Witness ==
    /\ exReturn.op = "DELTAStateTransferAgain"
    /\ Len(exTx.Ins) = 2
    /\ \A i \in DOMAIN exTx.Ins : exTx.Ins[i].Amount > 0
    /\ exReturn.pre = Refunded(exReturn.pre)
    /\ exReturn.err = "errInvalidNonce"

\* C34: CheckConfigForkOrder returns no error for the preset configurations of
\* the main network, the test network and the local network
C34_PresetsAccepted ==
    (cfgOut.op = "CheckConfigForkOrder" /\ cfgIn.stored \in PresetConfigs) => cfgOut.err = "nil"

\* flag i of a rule set, in the canonical order of the upgrades keyed by timestamp
Flag(rules, i) == rules[RuleFlags[i]]

\* C35: for a configuration CheckConfigForkOrder accepts, an upgrade active at
\* a timestamp has every earlier upgrade of the canonical order active at that
\* timestamp, and is active at every later timestamp
C35_FlagsDownwardClosedAndMonotone ==
    (cfgOut.op = "OdysseyRules" /\ CheckConfigForkOrder(cfgIn.stored) = "nil") =>
        /\ \A i \in DOMAIN RuleFlags, j \in DOMAIN RuleFlags :
               (i < j /\ Flag(cfgOut.rules, j)) => Flag(cfgOut.rules, i)
        /\ \A later \in cfgOut.btime..(MaxTime + 2), i \in DOMAIN RuleFlags :
               Flag(cfgOut.rules, i)
                   => Flag(OdysseyRules(cfgIn.stored, cfgIn.height, later), i)

\* an accepted configuration with upgrades at three different times, asked
\* between two of them: some upgrades are active and a later one is not yet
C35_Witness ==
    /\ cfgOut.op = "OdysseyRules"
    /\ CheckConfigForkOrder(cfgIn.stored) = "nil"
    /\ cfgIn.stored.BanffBlockTimestamp # Nil
    /\ cfgIn.stored.BanffBlockTimestamp > cfgIn.stored.OdyPhase7BlockTimestamp
    /\ cfgIn.stored.OdyPhase7BlockTimestamp > cfgIn.stored.OdyPhase1BlockTimestamp
    /\ cfgOut.rules.IsOdyPhase7
    /\ ~cfgOut.rules.IsBanff
    /\ cfgOut.btime >= cfgIn.stored.OdyPhase7BlockTimestamp

\* pairs of configurations of any order in their last three upgrades: Cortina,
\* DUpgrade and Cancun of the stored one set to any time or not set, those of
\* the new one not set or late, every earlier upgrade at 0
AnyOrderTimestamps(cortina, dUpgrade, cancun) ==
    [i \in DOMAIN TimestampFields |->
        IF TimestampFields[i] = "CortinaBlockTimestamp" THEN cortina
        ELSE IF TimestampFields[i] = "DUpgradeBlockTimestamp" THEN dUpgrade
        ELSE IF TimestampFields[i] = "CancunTime" THEN cancun
        ELSE 0]
AnyOrderCompatCall ==
    \E cs \in {Nil} \cup 0..MaxTime, ds \in {Nil} \cup 0..MaxTime, ns \in {Nil} \cup 0..MaxTime,
       cn \in {Nil, MaxTime}, dn \in {Nil} \cup 0..MaxTime, nn \in {Nil, MaxTime},
       time \in 0..(MaxTime + 1) :
        cfgIn = [stored |-> ChainConfig(GenesisBlocks(10, Nil, 0),
                                        AnyOrderTimestamps(cs, ds, ns), FALSE, 1),
                 new |-> ChainConfig(GenesisBlocks(10, Nil, 0),
                                     AnyOrderTimestamps(cn, dn, nn), FALSE, 1),
                 height |-> 1, time |-> time]

InitConfigAnyOrder ==
    /\ AnyOrderCompatCall \/ BlockCompatCall
    /\ cfgOut = NoConfigCall
    /\ IdleFees
    /\ IdleSyntactic
    /\ IdleBlocks
    /\ IdleExport
    /\ IdleBaseFee
    /\ IdleImport
    /\ IdleUpdater

\* the loop of CheckCompatible runs on: an iteration that can be taken is taken
SpecConfigLive ==
    InitConfigAnyOrder /\ [][NextConfig]_vars /\ WF_vars(CheckCompatibleIterate)

\* C36: CheckCompatible returns for every pair of configurations, every height
\* and every timestamp: its loop stops after finitely many iterations
C36_CheckCompatibleTerminates ==
    (cfgOut.op = "CheckCompatible") ~> (cfgOut.pc = "returned")

\* a VM, bootstrapped or not, that verifies blocks and import transactions:
\* shared memory with or without the entry the blocks consume
InitBootstrapping ==
    /\ status = [b \in Blocks |-> "Unknown"]
    /\ mempool = [t \in Txs |-> 0]
    /\ verifiedRoots = {}
    /\ chainLastAccepted = None
    /\ dbMem = None
    /\ commitBatch = None
    /\ diskLastAccepted = None
    /\ sharedMemory \in {{}, {"u1"}}
    /\ smApplied = {}
    /\ bootstrapped \in BOOLEAN
    /\ wellFormed \in {Blocks, {"B1"}}
    /\ rejectedBefore = {}
    /\ pc = "idle"
    /\ cur = None
    /\ trace = <<>>
    /\ result = NoResult
    /\ BootstrappedImport
    /\ imVM.bootstrapped = bootstrapped
    /\ imReturn = NoImportReturn
    /\ IdleFees
    /\ IdleSyntactic
    /\ IdleExport
    /\ IdleBaseFee
    /\ IdleConfig
    /\ IdleUpdater

NextBootstrapping ==
    \/ \E b \in Blocks, writes \in BOOLEAN : verify(b, writes)
    \/ TakeResult
    \/ CallImportSemanticVerify

SpecBootstrapping == InitBootstrapping /\ [][NextBootstrapping]_vars

\* C37: on a VM that is not bootstrapped, SemanticVerify of an import succeeds
\* exactly when Verify, the flow check and the count of credentials pass,
\* whatever shared memory holds, whoever signed and whatever the ancestors
\* consume; and Verify of a block does not fail for an entry missing from
\* shared memory
C37_NotBootstrappedSkips ==
    /\ (imReturn.op = "SemanticVerify" /\ ~imVM.bootstrapped) =>
           (imReturn.err = "nil" <=> /\ ImportVerify(imTx, imRules) = "nil"
                                     /\ ImportBalanced
                                     /\ Len(imTx.Creds) = Len(imTx.ImportedInputs))
    /\ (result.op = "Verify" /\ ~bootstrapped) =>
           /\ result.err # "errMissingUTXOs"
           /\ syntacticVerify(result.blk) => result.err \in InsertOutcomes

\* before bootstrapping ends an import has passed SemanticVerify though its
\* inputs are not in shared memory, an ancestor consumes one and the first
\* credential signs for another owner, and a block has passed Verify though the
\* entry it consumes is missing
C37_Witness ==
    /\ ~bootstrapped /\ ~imVM.bootstrapped
    /\ imReturn.op = "SemanticVerify" /\ imReturn.err = "nil"
    /\ DOMAIN imVM.utxos = {}
    /\ imVM.ancestorInputs # {}
    /\ Len(imTx.Creds) = 2 /\ imTx.Creds[1].Sigs = <<"a2">>
    /\ result.op = "Verify" /\ result.err = "nil"
    /\ MissingUTXOs(result.blk)

(***************************************************************************)
(* SyntacticVerify on blocks of every shape                                *)
(***************************************************************************)

\* the header and block fields SyntacticVerify reads besides the gas fields:
\* the one that is off
SyntacticDefects ==
    {"none", "extDataHashes", "extDataHash", "number", "difficulty", "nonce", "mixDigest",
     "gasLimit", "extra", "version", "txHash", "uncleHash", "coinbase", "uncles",
     "gasPrice", "timestamp"}

\* the atomic transactions a block carries: an export of one output, an export
\* of two and an import
ExportOneOutput ==
    LET ins == <<DELTAInput("a1", 1, DIONEAssetID, 0)>>
    IN  AtomicTx("export", ExportTx("thisNetwork", "thisChain", "AChain", ins,
                                    <<[AssetID |-> DIONEAssetID, Amount |-> 1]>>,
                                    MatchingCreds(ins)))
ExportTwoOutputs ==
    LET ins == <<DELTAInput("a1", 2, DIONEAssetID, 0)>>
    IN  AtomicTx("export", ExportTx("thisNetwork", "thisChain", "AChain", ins,
                                    <<[AssetID |-> DIONEAssetID, Amount |-> 1],
                                      [AssetID |-> DIONEAssetID, Amount |-> 1]>>,
                                    MatchingCreds(ins)))
ImportOneOutput ==
    LET ins == <<TransferableInput("x1", DIONEAssetID, 1)>>
    IN  AtomicTx("import", ImportTx("thisNetwork", "thisChain", "AChain", ins,
                                    <<EVMOutput("a1", 1, DIONEAssetID)>>, ImportCreds(ins)))

\* the numbers of atomic transactions of a block: the last one whose gas fits
\* AtomicGasLimit is the eighth
BlockSizes == {0, 1, 8, 9}

\* the lists of atomic transactions: any of the three, then exports of one output
AtomicTxLists ==
    {[i \in 1..n |-> IF i = 1 THEN first ELSE ExportOneOutput] :
        n \in BlockSizes, first \in {ExportOneOutput, ExportTwoOutputs, ImportOneOutput}}

\* the values of the header's ExtDataGasUsed: absent, zero, the gas of the
\* atomic transactions with and without the fixed cost, one more, and the
\* values at AtomicGasLimit
ExtDataGasUsedChoices(txs) ==
    {Nil, 0, TotalGasUsed(txs, TRUE), TotalGasUsed(txs, FALSE), TotalGasUsed(txs, TRUE) + 1,
     AtomicGasLimit, AtomicGasLimit + 1}

\* the bit lengths of BaseFee and BlockGasCost (Nil when the field is absent);
\* at most one of the fields outside the gas accounting is off
OtherFields ==
    {<<d, 1, 1>> : d \in SyntacticDefects}
        \cup {<<"none", f, 1>> : f \in {Nil, 257}}
        \cup {<<"none", 1, c>> : c \in {Nil, 65}}

InitSyntactic ==
    /\ \/ \E phase1 \in BOOLEAN, cortina \in BOOLEAN, g \in BOOLEAN, o \in OtherFields,
             n \in 0..1, txs \in AtomicTxLists :
              \E used \in ExtDataGasUsedChoices(txs) :
                  /\ cortina => phase1
                  /\ svIn = [block |-> SyntacticBlock(g, o[1], n, txs, o[2], used, o[3]),
                             rules |-> [IsOdysseyPhase1 |-> phase1, IsCortina |-> cortina]]
       \/ \E phase1 \in BOOLEAN :
              svIn = [block |-> NilBlock,
                      rules |-> [IsOdysseyPhase1 |-> phase1, IsCortina |-> FALSE]]
    /\ svOut = NoVerdict
    /\ IdleFees
    /\ IdleBlocks
    /\ IdleExport
    /\ IdleBaseFee
    /\ IdleConfig
    /\ IdleImport
    /\ IdleUpdater

NextSyntactic == CallSyntacticVerify

SpecSyntactic == InitSyntactic /\ [][NextSyntactic]_vars

\* the block SyntacticVerify was called on, under the rules of the phase that
\* introduces the atomic gas accounting, and accepted
AcceptedUnderPhase1 ==
    /\ svOut.called
    /\ svOut.err = "nil"
    /\ svIn.rules.IsOdysseyPhase1
    /\ ~svIn.block.isNil
    /\ ~svIn.block.isGenesis

\* C38: once the phase that introduces the atomic gas accounting is active,
\* SyntacticVerify accepts a block other than genesis only if the header's
\* ExtDataGasUsed is present, is at most AtomicGasLimit and is the sum of
\* GasUsed, the fixed cost of each transaction included, over the block's
\* atomic transactions
C38_AcceptedGasAccounted ==
    AcceptedUnderPhase1 =>
        /\ svIn.block.header.ExtDataGasUsed # Nil
        /\ svIn.block.header.ExtDataGasUsed <= AtomicGasLimit
        /\ svIn.block.header.ExtDataGasUsed = TotalGasUsed(svIn.block.atomicTxs, TRUE)

\* an accepted block of eight atomic transactions, the most that fit
C38_Witness ==
    /\ AcceptedUnderPhase1
    /\ Len(svIn.block.atomicTxs) = 8
    /\ svIn.block.header.ExtDataGasUsed = TotalGasUsed(svIn.block.atomicTxs, TRUE)

(***************************************************************************)
(* The two copies of the fee calculator                                    *)
(***************************************************************************)

\* what the second copy of CalculateFees returns on the arguments of the call
LateDivisionFees == CalculateFeesLateDivision(feeIn.B, feeIn.P, feeIn.n, feeIn.rules)

\* C39: the two copies of CalculateFees, the one dividing the capped validator
\* pool by the allocation denominator before the division by the validator
\* count and the one dividing after it, return the same five amounts on every
\* input
C39_VariantsAgree ==
    feeOut.called =>
        /\ feeOut.BaseFee = LateDivisionFees.BaseFee
        /\ feeOut.PriorityFee = LateDivisionFees.PriorityFee
        /\ feeOut.LpAllocation = LateDivisionFees.LpAllocation
        /\ feeOut.GovernanceAllocation = LateDivisionFees.GovernanceAllocation
        /\ feeOut.OrionFee = LateDivisionFees.OrionFee
====
